---- MODULE Spec2Model ----
(***************************************************************************)
(* Cache-coherent request orchestration of the image browser front end:    *)
(* the folder cache (hooks/folderCache), request deduplication, the        *)
(* prefetch queue and the optimistic updates (hooks/requestManager), the   *)
(* conditional transport (hooks/request) and the navigation of the         *)
(* explorer store (hooks/explorer).                                        *)
(*                                                                         *)
(* Paths and names are sequences of one-character strings, so that         *)
(* String.startsWith and the `${path}/${name}` concatenation are computed  *)
(* and not assumed.  A listing is a sequence of item names.                *)
(***************************************************************************)
EXTENDS Integers, Sequences, FiniteSets, TLC

\* ------------------------------------------------------------------ bounds
\* FolderCacheConfig.maxEntries, scaled down
maxEntries == 2
\* FolderCacheConfig.maxAgeMs, in clock ticks
maxAgeMs == 1
\* last value of the clock (Date.now())
MaxNow == 2
\* number of navigations the user starts in one behaviour
MaxNav == 2
\* number of network requests that may be in flight together
MaxFetch == 2
\* number of deleteItems calls in one behaviour
MaxDelete == 1
MaxMove == 1
\* number of createNewPrompt and createItems calls in one behaviour
MaxMutate == 1
\* maxHistorySize of the smart prefetcher (100), scaled down
maxHistorySize == 6
MaxRecord == 2
MaxOpen == 2
\* item objects the heap can hold
MaxObjects == 4
\* listing arrays the heap can hold
MaxArrays == 3
\* items a listing edited by optimisticAdd can hold
MaxListing == 2
\* number of queuePrefetch calls in one behaviour of the prefetch scheduler
MaxQueueCalls == 2
MaxCancellable == 3
\* MAX_CONCURRENT_PREFETCH of the request manager (6), scaled down
MAX_CONCURRENT_PREFETCH == 2

\* ------------------------------------------------------------------- paths
Root == <<"/", "o">>
Sub == <<"/", "o", "/", "d">>
SubLong == <<"/", "o", "/", "d", "e">>
Other == <<"/", "o", "/", "c">>

\* the folders the explorer can show
NavPaths == {Root, Sub}
\* the keys used on the folder cache alone
CachePaths == {Sub, SubLong, Other}

\* String.prototype.startsWith
StartsWith(s, prefix) ==
  /\ Len(prefix) <= Len(s)
  /\ SubSeq(s, 1, Len(prefix)) = prefix

\* `${currentPath}/${item.name}`
Fullname(path, name) == path \o <<"/">> \o <<name>>

\* ------------------------------------------------------------ sequence help
\* Array.indexOf, 0 when absent (the code's -1)
IndexOf(seq, x) ==
  IF \E i \in 1..Len(seq) : seq[i] = x
  THEN CHOOSE i \in 1..Len(seq) : seq[i] = x /\ \A j \in 1..(i - 1) : seq[j] # x
  ELSE 0

\* idx = indexOf(x); if (idx > -1) splice(idx, 1)
SpliceOut(seq, x) ==
  LET idx == IndexOf(seq, x)
  IN IF idx = 0 THEN seq
     ELSE SubSeq(seq, 1, idx - 1) \o SubSeq(seq, idx + 1, Len(seq))

Range(seq) == {seq[i] : i \in 1..Len(seq)}

\* ------------------------------------------------------------- folder cache
\* The FolderCache object is a record
\*   cache       : the Map, as the sequence of its entries in insertion order
\*   accessOrder : the accessOrder array
\* an entry is [path, data, etag, timestamp].
\* etag '' is <<>>, a server validator is <<"h">> \o listing.
EmptyEtag == <<>>
NullEtag == <<"null">>
Null == [null |-> TRUE]

EmptyFolderCache == [cache |-> <<>>, accessOrder |-> <<>>]

\* Map.has
MapHas(c, path) == \E i \in 1..Len(c.cache) : c.cache[i].path = path

\* Map.get, Null for undefined
MapGet(c, path) ==
  IF MapHas(c, path)
  THEN c.cache[CHOOSE i \in 1..Len(c.cache) : c.cache[i].path = path]
  ELSE Null

\* Map.delete
MapDelete(cacheSeq, path) == SelectSeq(cacheSeq, LAMBDA e : e.path # path)

\* Map.set: an existing key keeps its place in the iteration order
MapSet(cacheSeq, entry) ==
  IF \E i \in 1..Len(cacheSeq) : cacheSeq[i].path = entry.path
  THEN [i \in 1..Len(cacheSeq) |->
          IF cacheSeq[i].path = entry.path THEN entry ELSE cacheSeq[i]]
  ELSE Append(cacheSeq, entry)

\* Map.keys()
MapKeys(c) == [i \in 1..Len(c.cache) |-> c.cache[i].path]

\* evictOldest(count): count is passed doubled, so that cache.size / 2 stays
\* an integer; the loop runs while i < count, i.e. while 2 * i < count2
RECURSIVE evictLoop(_, _, _)
evictLoop(c, i, count2) ==
  IF 2 * i < count2 /\ Len(c.accessOrder) > 0
  THEN LET oldest == Head(c.accessOrder)
       IN evictLoop([cache |-> MapDelete(c.cache, oldest),
                     accessOrder |-> Tail(c.accessOrder)], i + 1, count2)
  ELSE c

evictOldest(c, count2) == evictLoop(c, 0, count2)

\* sessionStorage.setItem succeeds when the serialized map fits the quota
\* left to the origin, counted in entries
Fits(c, quotaLeft) == Len(c.cache) <= quotaLeft

\* a variant of saveToStorage that evicts nothing when the write fails
saveToStorageKeep(c, quotaLeft) == c

\* saveToStorage: on a failed write evict cache.size / 2 entries and retry
\* once; the retry's failure is swallowed
saveToStorage(c, quotaLeft) ==
  IF Fits(c, quotaLeft) THEN c ELSE evictOldest(c, Len(c.cache))

\* a variant of the loop of loadFromStorage that fills the map only
loadLoopNoOrder(c, entries, t) ==
  [c EXCEPT !.cache = SelectSeq(entries, LAMBDA e : t - e.timestamp < maxAgeMs)]

\* the loop of loadFromStorage over Object.entries(parsed)
RECURSIVE loadLoop(_, _, _)
loadLoop(c, entries, t) ==
  IF entries = <<>> THEN c
  ELSE LET e == Head(entries)
       IN loadLoop(IF t - e.timestamp < maxAgeMs
                   THEN [cache |-> MapSet(c.cache, e),
                         accessOrder |-> Append(c.accessOrder, e.path)]
                   ELSE c,
                   Tail(entries), t)

\* loadFromStorage, run by the constructor on an empty cache; stored is what
\* sessionStorage holds under 'folderCache', the entries in the order of
\* their keys
loadFromStorage(stored, t) == loadLoop(EmptyFolderCache, stored, t)

\* a variant that leaves a key already listed where it is
updateAccessOrderFifo(c, key) ==
  IF key \in Range(c.accessOrder) THEN c
  ELSE [c EXCEPT !.accessOrder = Append(c.accessOrder, key)]

updateAccessOrder(c, key) ==
  [c EXCEPT !.accessOrder = Append(SpliceOut(c.accessOrder, key), key)]

Expired(entry, t) == t - entry.timestamp > maxAgeMs

\* get: the cache after the call
getCache(c, path, t) ==
  LET entry == MapGet(c, path)
  IN IF entry = Null THEN c
     ELSE IF Expired(entry, t)
          THEN [cache |-> MapDelete(c.cache, path),
                accessOrder |-> SpliceOut(c.accessOrder, path)]
          ELSE updateAccessOrder(c, path)

\* get: the value returned
getEntry(c, path, t) ==
  LET entry == MapGet(c, path)
  IN IF entry = Null THEN Null
     ELSE IF Expired(entry, t) THEN Null ELSE entry

\* getData: entry ? entry.data : null
getData(c, path, t) ==
  LET entry == getEntry(c, path, t)
  IN IF entry = Null THEN Null ELSE [data |-> entry.data]

\* has
has(c, path, t) == getEntry(c, path, t) # Null

\* a variant of getEtag that does not look at the age of the entry
getEtagStale(c, path, t) ==
  LET entry == MapGet(c, path)
  IN IF entry = Null THEN NullEtag ELSE entry.etag

\* getEtag does not touch the cache
getEtag(c, path, t) ==
  LET entry == MapGet(c, path)
  IN IF entry = Null THEN NullEtag
     ELSE IF Expired(entry, t) THEN NullEtag ELSE entry.etag

\* a variant of set that does not evict at capacity
setNoEvict(c, path, data, etag, t, quotaLeft) ==
  LET entry == [path |-> path, data |-> data, etag |-> etag, timestamp |-> t]
      c2 == [c EXCEPT !.cache = MapSet(c.cache, entry)]
  IN saveToStorage(updateAccessOrder(c2, path), quotaLeft)

\* set
set(c, path, data, etag, t, quotaLeft) ==
  LET c1 == IF Len(c.cache) >= maxEntries /\ ~MapHas(c, path)
            THEN evictOldest(c, 2) ELSE c
      entry == [path |-> path, data |-> data, etag |-> etag, timestamp |-> t]
      c2 == [c1 EXCEPT !.cache = MapSet(c1.cache, entry)]
  IN saveToStorage(updateAccessOrder(c2, path), quotaLeft)

\* invalidate
invalidate(c, path, quotaLeft) ==
  saveToStorage([cache |-> MapDelete(c.cache, path),
                 accessOrder |-> SpliceOut(c.accessOrder, path)], quotaLeft)

\* invalidatePrefix: collect the keys in Map order, then invalidate each
RECURSIVE invalidateAll(_, _, _)
invalidateAll(c, keysToDelete, quotaLeft) ==
  IF keysToDelete = <<>> THEN c
  ELSE invalidateAll(invalidate(c, Head(keysToDelete), quotaLeft),
                     Tail(keysToDelete), quotaLeft)

\* a variant that removes only the key equal to the prefix
invalidatePrefixExact(c, prefix, quotaLeft) ==
  invalidateAll(c, SelectSeq(MapKeys(c), LAMBDA k : k = prefix), quotaLeft)

invalidatePrefix(c, prefix, quotaLeft) ==
  invalidateAll(c, SelectSeq(MapKeys(c), LAMBDA k : StartsWith(k, prefix)),
                quotaLeft)

\* clear
clear(c) == EmptyFolderCache

\* ------------------------------------------------------------------ server
\* item names; "d" is the folder Sub inside Root, the others are files
FolderNames == {"d"}
NamesOf(path) == IF path = Root THEN <<"d", "f">> ELSE <<"g">>
FileOf(path) == IF path = Root THEN "f" ELSE "g"

\* the validator the server sends with a listing: a hash of the listing
ServerEtag(listing) == <<"h">> \o listing

\* the sub folder "d" can be read while its parent lists it
Exists(srvNow, path) == path # Sub \/ "d" \in Range(srvNow[Root])

\* Array.filter(item => item.name !== itemName), also !list.includes(...)
Without(listing, names) == SelectSeq(listing, LAMBDA n : n \notin names)

\* ----------------------------------------------------------------- network
\* a slot of the network holds one request in flight and the promise made of it
\*   kind        : "read" (requestWithCache), "prefetch" (fetchAndCache),
\*                 "delete" (request('/delete'))
\*   url         : the folder read, or the uri of the delete
\*   ifNoneMatch : the If-None-Match header, NullEtag when not sent
\*   names       : file_list of a delete
\*   status      : "sent", then the server's answer "200" | "304" | "error",
\*                 or "stuck" for a promise that can never settle
\*   data, etag  : the body and the ETag header of a "200" answer
Free == [kind |-> "free"]

Request(kind, url, ifNoneMatch, names) ==
  [kind |-> kind, url |-> url, ifNoneMatch |-> ifNoneMatch, names |-> names,
   status |-> "sent", data |-> <<>>, etag |-> EmptyEtag]

FetchIds == 1..MaxFetch

HasFree(net, n) == Cardinality({i \in DOMAIN net : net[i] = Free}) >= n

FreeId(net) == CHOOSE i \in DOMAIN net :
                 net[i] = Free /\ \A j \in DOMAIN net : net[j] = Free => i <= j

\* ------------------------------------------------------------ client state
\* The operations below are functions on the record s of the client's state:
\*   fc       folderCache                 now, quota  the environment's clock
\*   queue    prefetchQueue                           and storage quota
\*   active   activePrefetches           net         the network slots
\*   inflight inFlightRequests           waiters     the callers awaiting a
\*   items, loading, navId, path                     read, in call order
\*   rendered what the items on screen were made from
\*   settled  the last read that settled and what its callers got
\*   lastDelete the last delete answered and the folder refreshed after it
\*   full     set when an operation needed more network slots than modelled
NoRender == [via |-> "none"]

\* ------------------------------------------------------ prefetch scheduler
\* Array.sort((a, b) => a.priority - b.priority), which is stable
Priorities == 0..3

RECURSIVE sortFrom(_, _)
sortFrom(q, p) ==
  IF p > 3 THEN <<>>
  ELSE SelectSeq(q, LAMBDA item : item.priority = p) \o sortFrom(q, p + 1)

\* a variant that leaves the queue in the order of the pushes
sortByPriorityNone(q) == q

sortByPriority(q) == sortFrom(q, 0)

\* api.fetchApi(`/image-browsing${path}`) of fetchAndCache
fetchAndCache(s, path) ==
  IF ~HasFree(s.net, 1) THEN [s EXCEPT !.full = TRUE]
  ELSE [s EXCEPT !.net[FreeId(s.net)] = Request("prefetch", path, NullEtag, <<>>)]

\* a variant of the loop that does not look at activePrefetches
RECURSIVE prefetchLoopUncapped(_)
prefetchLoopUncapped(s) ==
  IF Len(s.queue) > 0
  THEN LET item == Head(s.queue)
           s1 == [s EXCEPT !.queue = Tail(s.queue),
                           !.fc = getCache(s.fc, item.path, s.now)]
       IN IF has(s.fc, item.path, s.now)
          THEN prefetchLoopUncapped(s1)
          ELSE prefetchLoopUncapped(
                 fetchAndCache([s1 EXCEPT !.active = s.active + 1], item.path))
  ELSE s

\* the while loop of processPrefetchQueue
RECURSIVE prefetchLoop(_)
prefetchLoop(s) ==
  IF Len(s.queue) > 0 /\ s.active < MAX_CONCURRENT_PREFETCH
  THEN LET item == Head(s.queue)
           s1 == [s EXCEPT !.queue = Tail(s.queue),
                           !.fc = getCache(s.fc, item.path, s.now)]
       IN IF has(s.fc, item.path, s.now)
          THEN prefetchLoop(s1)
          ELSE prefetchLoop(fetchAndCache([s1 EXCEPT !.active = s.active + 1],
                                          item.path))
  ELSE s

\* processPrefetchQueue; isPrefetching is false whenever it is called, as the
\* function never suspends between setting and resetting it
processPrefetchQueue(s) ==
  IF Len(s.queue) = 0 THEN s
  ELSE IF s.active >= MAX_CONCURRENT_PREFETCH THEN s
  ELSE prefetchLoop(s)

\* the for loop of queuePrefetch
RECURSIVE queueLoop(_, _, _)
queueLoop(s, paths, priority) ==
  IF paths = <<>> THEN s
  ELSE LET path == Head(paths)
           s1 == [s EXCEPT !.fc = getCache(s.fc, path, s.now)]
       IN IF has(s.fc, path, s.now)
          THEN queueLoop(s1, Tail(paths), priority)
          ELSE IF \E i \in 1..Len(s.queue) : s.queue[i].path = path
               THEN queueLoop(s1, Tail(paths), priority)
               ELSE queueLoop([s1 EXCEPT !.queue = Append(s.queue,
                                 [path |-> path, priority |-> priority])],
                              Tail(paths), priority)

queuePrefetch(s, paths, priority) ==
  LET s1 == queueLoop(s, paths, priority)
  IN processPrefetchQueue([s1 EXCEPT !.queue = sortByPriority(s1.queue)])

\* a variant of the completion that does not continue with the queue
prefetchSettledStops(s, id) ==
  LET r == s.net[id]
      s1 == IF r.status = "200" /\ r.etag # EmptyEtag
            THEN [s EXCEPT !.fc = set(s.fc, r.url, r.data, r.etag, s.now, s.quota)]
            ELSE s
  IN [s1 EXCEPT !.net[id] = Free, !.active = s.active - 1]

\* the completion of fetchAndCache and the .catch().finally() of the worker
prefetchSettled(s, id) ==
  LET r == s.net[id]
      s1 == IF r.status = "200" /\ r.etag # EmptyEtag
            THEN [s EXCEPT !.fc = set(s.fc, r.url, r.data, r.etag, s.now, s.quota)]
            ELSE s
      s2 == [s1 EXCEPT !.net[id] = Free, !.active = s.active - 1]
  IN IF Len(s2.queue) > 0 THEN processPrefetchQueue(s2) ELSE s2

\* -------------------------------------------------- deduplicated transport
\* a variant that never finds a promise in flight
existingRequestNone(inflight, url) == 0

\* inFlightRequests.get(url): the slot of the promise in flight, 0 for none
existingRequest(inflight, url) == inflight[url]

\* if (cachedEtag) headers['If-None-Match'] = cachedEtag
conditionalHeader(cachedEtag) ==
  IF cachedEtag # NullEtag /\ cachedEtag # EmptyEtag THEN cachedEtag ELSE NullEtag

\* requestWithCache(url) called by `caller`, a record [kind, navigationId]:
\* deduplicatedRequest returns the promise in flight, or runs the fetcher up
\* to its fetchApi call and registers the new promise
requestWithCache(s, url, caller) ==
  LET existing == existingRequest(s.inflight, url)
  IN IF existing # 0
     THEN [s EXCEPT !.waiters = Append(s.waiters,
              [fetch |-> existing, kind |-> caller.kind,
               navigationId |-> caller.navigationId, joined |-> TRUE])]
     ELSE IF ~HasFree(s.net, 1) THEN [s EXCEPT !.full = TRUE]
     ELSE LET id == FreeId(s.net)
              cachedEtag == getEtag(s.fc, url, s.now)
          IN [s EXCEPT !.net[id] = Request("read", url,
                                            conditionalHeader(cachedEtag), <<>>),
                       !.inflight[url] = id,
                       !.waiters = Append(s.waiters,
                          [fetch |-> id, kind |-> caller.kind,
                           navigationId |-> caller.navigationId,
                           joined |-> FALSE])]

\* ------------------------------------------------------------- navigation
IsFolder(name) == name \in FolderNames

\* a.name.localeCompare(b.name) on the one-letter names
NameRank(name) == CASE name = "d" -> 1 [] name = "f" -> 2 [] OTHER -> 3

RECURSIVE sortNamesFrom(_, _)
sortNamesFrom(names, rank) ==
  IF rank > 3 THEN <<>>
  ELSE SelectSeq(names, LAMBDA n : NameRank(n) = rank)
         \o sortNamesFrom(names, rank + 1)

sortNames(names) == sortNamesFrom(names, 1)

\* processData(resData), with `source` telling where resData came from
processData(s, resData, source) ==
  LET folders == sortNames(SelectSeq(resData, IsFolder))
      files == sortNames(SelectSeq(resData, LAMBDA n : ~IsFolder(n)))
      s1 == [s EXCEPT !.items = folders \o files,
                      !.rendered = source]
      folderPaths == [i \in 1..Len(folders) |-> Fullname(s.path, folders[i])]
  IN IF Len(folders) > 0 /\ Len(folders) <= 20
     THEN queuePrefetch(s1, folderPaths, 1)
     ELSE s1

\* a variant that takes every navigation for the current one
supersededNever(navigationId, currentNavigationId) == FALSE

\* navigationId !== currentNavigationId
superseded(navigationId, currentNavigationId) ==
  navigationId # currentNavigationId

\* a variant of refresh() that always waits for the network
refreshBlocking(s) ==
  LET navigationId == s.navId + 1
      s1 == [s EXCEPT !.navId = navigationId,
                      !.fc = getCache(s.fc, s.path, s.now)]
  IN requestWithCache([s1 EXCEPT !.loading = TRUE, !.items = <<>>,
                                 !.rendered = NoRender], s.path,
                      [kind |-> "refresh", navigationId |-> navigationId])

\* refresh(), run up to its first await
refresh(s) ==
  LET navigationId == s.navId + 1
      cachedData == getData(s.fc, s.path, s.now)
      s1 == [s EXCEPT !.navId = navigationId,
                      !.fc = getCache(s.fc, s.path, s.now),
                      !.op = [name |-> "get", path |-> s.path, item |-> "",
                              dropped |-> IF MapHas(s.fc, s.path)
                                             /\ cachedData = Null
                                          THEN 1 ELSE 0]]
  IN IF cachedData # Null
     THEN LET s2 == processData(s1, cachedData.data,
                      [via |-> "cache", navigationId |-> navigationId,
                       path |-> s.path, url |-> s.path,
                       conditional |-> FALSE, joined |-> FALSE,
                       kind |-> "refresh"])
          IN requestWithCache([s2 EXCEPT !.loading = FALSE], s.path,
                              [kind |-> "revalidate", navigationId |-> 0])
     ELSE requestWithCache([s1 EXCEPT !.loading = TRUE, !.items = <<>>,
                                     !.rendered = NoRender], s.path,
                           [kind |-> "refresh", navigationId |-> navigationId])

\* a variant of forceRefresh that reuses the current navigation id
forceRefreshSameId(s) ==
  LET navigationId == s.navId
      s1 == [s EXCEPT !.navId = navigationId, !.loading = TRUE,
                      !.items = <<>>, !.rendered = NoRender,
                      !.fc = invalidate(s.fc, s.path, s.quota)]
  IN requestWithCache(s1, s.path,
                      [kind |-> "forceRefresh", navigationId |-> navigationId])

\* forceRefresh(), run up to its first await
forceRefresh(s) ==
  LET navigationId == s.navId + 1
      s1 == [s EXCEPT !.navId = navigationId, !.loading = TRUE,
                      !.items = <<>>, !.rendered = NoRender,
                      !.fc = invalidate(s.fc, s.path, s.quota)]
  IN requestWithCache(s1, s.path,
                      [kind |-> "forceRefresh", navigationId |-> navigationId])

\* a variant that reports a failed read whatever the navigation id
resumeToastsAlways(s, w, r, outcome) ==
  IF w.kind \notin {"refresh", "forceRefresh"} THEN s
  ELSE IF ~outcome.ok
       THEN IF superseded(w.navigationId, s.navId)
            THEN [s EXCEPT !.settled.toasts = @ + 1]
            ELSE [s EXCEPT !.loading = FALSE, !.settled.toasts = @ + 1]
  ELSE IF superseded(w.navigationId, s.navId) THEN s
  ELSE [processData(s, outcome.data,
          [via |-> "network", navigationId |-> w.navigationId,
           path |-> s.path, url |-> r.url,
           conditional |-> r.ifNoneMatch # NullEtag,
           joined |-> w.joined, kind |-> w.kind])
        EXCEPT !.loading = FALSE]

\* the rest of refresh / forceRefresh after `await request(currentPath)`;
\* the background revalidation leaves the explorer's state alone; a read
\* made without an abort signal never fails with an AbortError, and
\* settled.toasts counts the toast.add calls of the step
resumeNavigation(s, w, r, outcome) ==
  IF superseded(w.navigationId, s.navId) THEN s
  ELSE IF outcome.ok
       THEN [processData(s, outcome.data,
               [via |-> "network", navigationId |-> w.navigationId,
                path |-> s.path, url |-> r.url,
                conditional |-> r.ifNoneMatch # NullEtag,
                joined |-> w.joined, kind |-> w.kind])
             EXCEPT !.loading = FALSE]
       ELSE [s EXCEPT !.loading = FALSE, !.settled.toasts = @ + 1]

\* onRefresh of the dialog, as called by the folder tree's emit('refresh'):
\* forceRefresh() up to its await; refreshTree() follows when it returns
onRefresh(s) ==
  LET s1 == forceRefresh(s)
  IN IF s1.full THEN s1
     ELSE [s1 EXCEPT !.waiters[Len(s1.waiters)].kind = "onRefresh"]

\* refreshTree(): loadChildren(rootNode) reads the root folder
refreshTree(s) ==
  requestWithCache(s, Root, [kind |-> "loadChildren", navigationId |-> 0])

\* a variant in which every caller of a failed read reports it
resumeReportsAll(s, w, r, outcome) ==
  IF outcome.ok THEN s
  ELSE [s EXCEPT !.loading = FALSE, !.settled.toasts = @ + 1]

\* the caller w resumes with the outcome of the read r it awaited
resume(s, w, r, outcome) ==
  IF w.kind \in {"refresh", "forceRefresh"}
  THEN resumeNavigation(s, w, r, outcome)
  ELSE IF w.kind = "onRefresh"
  THEN refreshTree(resumeNavigation(s, w, r, outcome))
  \* deleteFolder after `await reloadNode(parentNode)`, whose loadChildren
  \* catches a failed read: emit('refresh')
  ELSE IF w.kind = "reloadNode" THEN onRefresh(s)
  \* createNewPrompt after `await refresh()` and createItems after the
  \* promise of forceRefresh(): finally, loading.value = false
  ELSE IF w.kind \in {"createNewPrompt", "createItems"}
  THEN [resumeNavigation(s, w, r, outcome) EXCEPT !.loading = FALSE]
  ELSE s

RECURSIVE resumeAll(_, _, _, _)
resumeAll(s, ws, r, outcome) ==
  IF ws = <<>> THEN s
  ELSE resumeAll(resume(s, Head(ws), r, outcome), Tail(ws), r, outcome)

\* the promise of slot id settles: .finally deletes the registration, then
\* every caller awaiting the promise resumes, in the order of the calls
settle(s, id, outcome) ==
  LET r == s.net[id]
      mine == SelectSeq(s.waiters, LAMBDA w : w.fetch = id)
      s1 == [s EXCEPT !.net[id] = Free,
                      !.inflight[r.url] = 0,
                      !.waiters = SelectSeq(s.waiters, LAMBDA w : w.fetch # id),
                      !.settled = [url |-> r.url, ok |-> outcome.ok,
                                   data |-> outcome.data,
                                   fromCache |-> outcome.fromCache,
                                   callers |-> [i \in 1..Len(mine) |->
                                      [kind |-> mine[i].kind,
                                       navigationId |-> mine[i].navigationId]],
                                   toasts |-> 0]]
  IN resumeAll(s1, mine, r, outcome)

\* a variant of the fetcher that stores the cached listing again on a 304
readSettledRestamps(s, id) ==
  LET r == s.net[id]
      cached == getEntry(s.fc, r.url, s.now)
  IN IF r.status = "304" /\ cached # Null
     THEN settle([s EXCEPT !.fc = set(s.fc, r.url, cached.data, cached.etag,
                                      s.now, s.quota)],
                 id, [ok |-> TRUE, data |-> cached.data, fromCache |-> TRUE])
     ELSE IF r.status = "304" THEN [s EXCEPT !.net[id].status = "stuck"]
     ELSE IF r.status = "200"
     THEN LET s1 == IF r.etag # EmptyEtag
                    THEN [s EXCEPT !.fc = set(s.fc, r.url, r.data, r.etag,
                                               s.now, s.quota)]
                    ELSE s
          IN settle(s1, id, [ok |-> TRUE, data |-> r.data, fromCache |-> FALSE])
     ELSE settle(s, id, [ok |-> FALSE, data |-> <<>>, fromCache |-> FALSE])

\* the fetcher of requestWithCache after `await api.fetchApi(...)`
readSettled(s, id) ==
  LET r == s.net[id]
  IN IF r.status = "304"
     THEN LET cached == getEntry(s.fc, r.url, s.now)
              s1 == [s EXCEPT !.fc = getCache(s.fc, r.url, s.now)]
          IN IF cached # Null
             THEN settle(s1, id, [ok |-> TRUE, data |-> cached.data,
                                  fromCache |-> TRUE])
             \* return requestWithCache(url, {skipCache: true}): the url is
             \* still registered, so deduplicatedRequest hands back the very
             \* promise this fetcher has to resolve; it never settles
             ELSE [s1 EXCEPT !.net[id].status = "stuck"]
     ELSE IF r.status = "200"
     THEN LET s1 == IF r.etag # EmptyEtag
                    THEN [s EXCEPT !.fc = set(s.fc, r.url, r.data, r.etag,
                                               s.now, s.quota)]
                    ELSE s
          IN settle(s1, id, [ok |-> TRUE, data |-> r.data, fromCache |-> FALSE])
     ELSE settle(s, id, [ok |-> FALSE, data |-> <<>>, fromCache |-> FALSE])

\* ------------------------------------------------------ optimistic updates
optimisticRemove(s, folderPath, itemName) ==
  LET cached == getData(s.fc, folderPath, s.now)
      c1 == getCache(s.fc, folderPath, s.now)
  IN IF cached # Null
     THEN [s EXCEPT !.fc = set(c1, folderPath,
                               Without(cached.data, {itemName}),
                               EmptyEtag, s.now, s.quota)]
     ELSE [s EXCEPT !.fc = c1]

\* optimisticAdd(folderPath, newItem)
optimisticAdd(s, folderPath, newItem) ==
  LET cached == getData(s.fc, folderPath, s.now)
      c1 == getCache(s.fc, folderPath, s.now)
  IN IF cached # Null
     THEN [s EXCEPT !.fc = set(c1, folderPath, Append(cached.data, newItem),
                               EmptyEtag, s.now, s.quota)]
     ELSE [s EXCEPT !.fc = c1]

\* optimisticRename(folderPath, oldName, newName)
optimisticRename(s, folderPath, oldName, newName) ==
  LET cached == getData(s.fc, folderPath, s.now)
      c1 == getCache(s.fc, folderPath, s.now)
  IN IF cached # Null
     THEN [s EXCEPT !.fc =
             set(c1, folderPath,
                 [i \in 1..Len(cached.data) |->
                    IF cached.data[i] = oldName THEN newName
                    ELSE cached.data[i]],
                 EmptyEtag, s.now, s.quota)]
     ELSE [s EXCEPT !.fc = c1]

RECURSIVE removeEach(_, _, _)
removeEach(s, folderPath, names) ==
  IF names = <<>> THEN s
  ELSE removeEach(optimisticRemove(s, folderPath, Head(names)), folderPath,
                  Tail(names))

\* handleDelete of deleteItems, with selectedItems = selected
handleDelete(s, selected) ==
  LET s1 == [s EXCEPT !.items = Without(s.items, Range(selected))]
      s2 == removeEach(s1, s.path, selected)
  IN IF ~HasFree(s2.net, 1) THEN [s2 EXCEPT !.full = TRUE]
     ELSE [s2 EXCEPT !.net[FreeId(s2.net)] =
                        Request("delete", s.path, NullEtag, selected)]

\* invalidateCachePrefix(item.fullname) for each deleted folder
RECURSIVE invalidateFolders(_, _, _)
invalidateFolders(s, uri, names) ==
  IF names = <<>> THEN s
  ELSE LET s1 == IF IsFolder(Head(names))
                 THEN [s EXCEPT !.fc = invalidatePrefix(s.fc,
                                  Fullname(uri, Head(names)), s.quota)]
                 ELSE s
       IN invalidateFolders(s1, uri, Tail(names))

\* the .then / .catch of the delete request
deleteSettled(s, id) ==
  LET r == s.net[id]
      s1 == [s EXCEPT !.net[id] = Free,
                      !.lastDelete = [uri |-> r.url, names |-> r.names,
                                      ok |-> r.status = "200",
                                      refreshed |-> s.path]]
  IN IF r.status = "200"
     THEN forceRefresh(invalidateFolders(s1, r.url, r.names))
     ELSE forceRefresh(s1)

\* deleteFolder of the folder tree, once confirmed: the delete request for
\* the folder `node`
ParentOf(node) == SubSeq(node, 1, Len(node) - 2)

deleteFolder(s, node) ==
  IF ~HasFree(s.net, 1) THEN [s EXCEPT !.full = TRUE]
  ELSE [s EXCEPT !.net[FreeId(s.net)] =
                   Request("treeDelete", ParentOf(node), NullEtag,
                           <<node[Len(node)]>>)]

\* deleteFolder once the delete is answered: reloadNode(parentNode) reads the
\* parent folder; a rejected delete only shows a toast
treeDeleteSettled(s, id) ==
  LET r == s.net[id]
      s1 == [s EXCEPT !.net[id] = Free]
  IN IF r.status = "200"
     THEN requestWithCache(s1, r.url, [kind |-> "reloadNode", navigationId |-> 0])
     ELSE s1

\* onMoveFiles up to its await: the move request for the paths `files`
onMoveFiles(s, files, targetFolder) ==
  IF ~HasFree(s.net, 1) THEN [s EXCEPT !.full = TRUE]
  ELSE [s EXCEPT !.net[FreeId(s.net)] =
                   Request("move", targetFolder, NullEtag, files)]

\* invalidateCache(folder) for the parent folder of each moved path
RECURSIVE invalidateSources(_, _)
invalidateSources(s, files) ==
  IF files = <<>> THEN s
  ELSE invalidateSources(
         [s EXCEPT !.fc = invalidate(s.fc, ParentOf(Head(files)), s.quota)],
         Tail(files))

\* onMoveFiles once the move is answered: the source folders and the target
\* folder are invalidated, then forceRefresh() and refreshTree(); a rejected
\* move only shows a toast
moveSettled(s, id) ==
  LET r == s.net[id]
      s1 == [s EXCEPT !.net[id] = Free]
      s2 == invalidateSources(s1, r.names)
  IN IF r.status = "200"
     THEN onRefresh([s2 EXCEPT !.fc = invalidate(s2.fc, r.url, s2.quota)])
     ELSE s1

\* ---------------------------------------------------------------- creations
\* createNewPrompt() up to its await: the request to create `name` in the
\* folder shown
createNewPrompt(s, name) ==
  IF ~HasFree(s.net, 1) THEN [s EXCEPT !.full = TRUE]
  ELSE [s EXCEPT !.loading = TRUE,
                 !.net[FreeId(s.net)] =
                   Request("createNewPrompt", s.path, NullEtag, <<name>>)]

\* createNewPrompt once the request is answered: `await refresh()`, then
\* finally loading.value = false; a rejected request shows a toast
createNewPromptSettled(s, id) ==
  LET r == s.net[id]
      s1 == [s EXCEPT !.net[id] = Free]
  IN IF r.status = "200"
     THEN LET s2 == refresh(s1)
          IN IF s2.full THEN s2
             \* refresh() returned after showing the cached listing
             ELSE IF getData(s1.fc, s1.path, s1.now) # Null
             THEN [s2 EXCEPT !.loading = FALSE]
             ELSE [s2 EXCEPT !.waiters[Len(s2.waiters)].kind =
                               "createNewPrompt"]
     ELSE [s1 EXCEPT !.loading = FALSE, !.settled.toasts = @ + 1]

\* createItems(formData) up to its request: the upload of `name` into the
\* folder shown
createItems(s, name) ==
  IF ~HasFree(s.net, 1) THEN [s EXCEPT !.full = TRUE]
  ELSE [s EXCEPT !.loading = TRUE,
                 !.net[FreeId(s.net)] =
                   Request("createItems", s.path, NullEtag, <<name>>)]

\* createItems once the upload is answered: then forceRefresh(), finally
\* loading.value = false; a rejected upload shows a toast
createItemsSettled(s, id) ==
  LET r == s.net[id]
      s1 == [s EXCEPT !.net[id] = Free]
  IN IF r.status = "200"
     THEN LET s2 == forceRefresh(s1)
          IN IF s2.full THEN s2
             ELSE [s2 EXCEPT !.waiters[Len(s2.waiters)].kind = "createItems"]
     ELSE [s1 EXCEPT !.loading = FALSE, !.settled.toasts = @ + 1]

\* --------------------------------------------------------- smart prefetcher
maxIn(S) == CHOOSE m \in S : \A x \in S : x <= m

\* Array.prototype.sort((a, b) => b.count - a.count): stable, highest first
RECURSIVE byCountFrom(_, _)
byCountFrom(h, counts) ==
  IF counts = {} THEN <<>>
  ELSE LET c == maxIn(counts)
       IN SelectSeq(h, LAMBDA r : r.count = c) \o byCountFrom(h, counts \ {c})

\* a variant that puts the lowest count first
sortByCountAscending(h) ==
  LET sorted == byCountFrom(h, {h[i].count : i \in 1..Len(h)})
  IN [i \in 1..Len(sorted) |-> sorted[Len(sorted) + 1 - i]]

sortByCount(h) == byCountFrom(h, {h[i].count : i \in 1..Len(h)})

\* Array.prototype.sort((a, b) => b.timestamp - a.timestamp)
RECURSIVE byTimestampFrom(_, _)
byTimestampFrom(h, stamps) ==
  IF stamps = {} THEN <<>>
  ELSE LET t == maxIn(stamps)
       IN SelectSeq(h, LAMBDA r : r.timestamp = t)
            \o byTimestampFrom(h, stamps \ {t})

sortByTimestamp(h) == byTimestampFrom(h, {h[i].timestamp : i \in 1..Len(h)})

\* Array.prototype.slice(0, n)
slice(seq, n) == SubSeq(seq, 1, IF Len(seq) < n THEN Len(seq) ELSE n)

pathsOf(h) == [i \in 1..Len(h) |-> h[i].path]

getFrequentPaths(h, limit) == pathsOf(slice(sortByCount(h), limit))

getRecentPaths(h, limit) == pathsOf(slice(sortByTimestamp(h), limit))

\* recordAccess(path) at Date.now() = t: the history afterwards; saveHistory
\* writes it to localStorage, which is read back only when the page loads
recordAccess(h, path, t) ==
  LET found == {i \in 1..Len(h) : h[i].path = path}
      h1 == IF found # {}
            THEN LET first == CHOOSE i \in found : \A j \in found : i <= j
                 IN [h EXCEPT ![first].timestamp = t, ![first].count = @ + 1]
            ELSE Append(h, [path |-> path, timestamp |-> t, count |-> 1])
  IN IF Len(h1) > maxHistorySize
     THEN slice(sortByTimestamp(h1), maxHistorySize)
     ELSE h1

\* the prefetcher's calls work on p = [s, prefetched, handed]: the client
\* state, prefetchedPaths and the queuePrefetch calls made so far
\* if (candidates.length > 0) { queuePrefetch(handedOver, priority);
\*                              candidates.forEach(add) }
nominate(p, candidates, handedOver, priority) ==
  IF candidates = <<>> THEN p
  ELSE [s |-> queuePrefetch(p.s, handedOver, priority),
        prefetched |-> p.prefetched \cup Range(candidates),
        handed |-> Append(p.handed, [paths |-> handedOver,
                                     priority |-> priority])]

\* a variant of onFolderOpen that does not look at prefetchedPaths
onFolderOpenAgain(s, prefetched, h, currentPath, siblings, children) ==
  LET p0 == [s |-> s, prefetched |-> prefetched, handed |-> <<>>]
      p1 == nominate(p0, children, slice(children, 10), 0)
      siblingsNotCached == SelectSeq(siblings, LAMBDA x : x # currentPath)
      p2 == nominate(p1, siblingsNotCached, slice(siblingsNotCached, 5), 1)
      frequentPaths == SelectSeq(getFrequentPaths(h, 5),
                                 LAMBDA x : x # currentPath)
      p3 == nominate(p2, frequentPaths, frequentPaths, 2)
      recentPaths == SelectSeq(getRecentPaths(h, 3), LAMBDA x : x # currentPath)
  IN nominate(p3, recentPaths, recentPaths, 3)

\* onFolderOpen(currentPath, siblings, children)
onFolderOpen(s, prefetched, h, currentPath, siblings, children) ==
  LET p0 == [s |-> s, prefetched |-> prefetched, handed |-> <<>>]
      childrenNotCached == SelectSeq(children, LAMBDA x : x \notin p0.prefetched)
      p1 == nominate(p0, childrenNotCached, slice(childrenNotCached, 10), 0)
      siblingsNotCached ==
        SelectSeq(siblings, LAMBDA x : x \notin p1.prefetched /\ x # currentPath)
      p2 == nominate(p1, siblingsNotCached, slice(siblingsNotCached, 5), 1)
      frequentPaths ==
        SelectSeq(getFrequentPaths(h, 5),
                  LAMBDA x : x \notin p2.prefetched /\ x # currentPath)
      p3 == nominate(p2, frequentPaths, frequentPaths, 2)
      recentPaths ==
        SelectSeq(getRecentPaths(h, 3),
                  LAMBDA x : x \notin p3.prefetched /\ x # currentPath)
  IN nominate(p3, recentPaths, recentPaths, 3)

\* onFolderHover(path, hoverDuration)
onFolderHover(s, prefetched, path, hoverDuration) ==
  LET p0 == [s |-> s, prefetched |-> prefetched, handed |-> <<>>]
  IN IF hoverDuration > 300 /\ path \notin prefetched
     THEN nominate(p0, <<path>>, <<path>>, 0)
     ELSE p0

\* onNavigateUp(currentPath, parentPath, parentSiblings)
onNavigateUp(s, prefetched, parentSiblings) ==
  LET p0 == [s |-> s, prefetched |-> prefetched, handed |-> <<>>]
      notCached == SelectSeq(parentSiblings, LAMBDA x : x \notin prefetched)
  IN nominate(p0, notCached, slice(notCached, 10), 0)

\* ------------------------------------------------- listings by identity
\* The item objects and the arrays of one folder's listing as the engine
\* holds them: objs[o] is the object o, arrs[a] the array a as the sequence
\* of its objects; stored is the array held as data by the folder's cache
\* entry (0: none), held what a reader got from getCachedData and the value
\* it had then, shown the objects of items.value, renaming the rename in
\* flight.
NoHeld == [arr |-> 0, value |-> <<>>]
NoRename == [obj |-> 0, name |-> ""]
EmptyHeap == [objs |-> <<>>, arrs |-> <<>>, stored |-> 0, held |-> NoHeld,
              shown |-> <<>>, renaming |-> NoRename]

\* the value of the array a: its objects in order
Deep(m, a) == [i \in 1..Len(m.arrs[a]) |-> m.objs[m.arrs[a][i]]]

\* response.json(): new objects, which carry neither handlers nor, in this
\* model, a fullname
parsed(names) ==
  [i \in 1..Len(names) |-> [name |-> names[i], fullname |-> <<>>,
                            onClick |-> FALSE]]

\* folderCache.set(path, data, etag) with data a new array of new objects
heapWrite(m, names) ==
  LET refs == [i \in 1..Len(names) |-> Len(m.objs) + i]
  IN [m EXCEPT !.objs = @ \o parsed(names),
               !.arrs = Append(@, refs),
               !.stored = Len(m.arrs) + 1]

\* optimisticAdd: [...cached, newItem]
heapOptimisticAdd(m, name) ==
  IF m.stored = 0 THEN m
  ELSE [m EXCEPT !.objs = @ \o parsed(<<name>>),
                 !.arrs = Append(@, Append(m.arrs[m.stored], Len(m.objs) + 1)),
                 !.stored = Len(m.arrs) + 1]

\* optimisticRemove: cached.filter(item => item.name !== itemName)
heapOptimisticRemove(m, itemName) ==
  IF m.stored = 0 THEN m
  ELSE [m EXCEPT !.arrs = Append(@, SelectSeq(m.arrs[m.stored],
                                   LAMBDA o : m.objs[o].name # itemName)),
                 !.stored = Len(m.arrs) + 1]

\* optimisticRename: cached.map(item => item.name === oldName
\*                                      ? { ...item, name: newName } : item)
heapOptimisticRename(m, oldName, newName) ==
  IF m.stored = 0 THEN m
  ELSE LET cached == m.arrs[m.stored]
           hit(i) == m.objs[cached[i]].name = oldName
           hitsTo(i) == Cardinality({j \in 1..i : hit(j)})
           hits == SelectSeq(cached, LAMBDA o : m.objs[o].name = oldName)
           copies == [k \in 1..Len(hits) |->
                        [m.objs[hits[k]] EXCEPT !.name = newName]]
           updated == [i \in 1..Len(cached) |->
                         IF hit(i) THEN Len(m.objs) + hitsTo(i) ELSE cached[i]]
       IN [m EXCEPT !.objs = @ \o copies,
                    !.arrs = Append(@, updated),
                    !.stored = Len(m.arrs) + 1]

\* getCachedData(path): the reader holds the stored array itself
heapGetData(m) ==
  IF m.stored = 0 THEN m
  ELSE [m EXCEPT !.held = [arr |-> m.stored, value |-> Deep(m, m.stored)]]

\* folders.sort / files.sort on new arrays of the same objects
sortObjects(m, refs) ==
  SelectSeq(refs, LAMBDA o : NameRank(m.objs[o].name) = 1)
    \o SelectSeq(refs, LAMBDA o : NameRank(m.objs[o].name) = 2)
    \o SelectSeq(refs, LAMBDA o : NameRank(m.objs[o].name) = 3)

\* processData(resData) with resData the array a: item.fullname is assigned
\* on each object of resData, items.value is a new array of these objects,
\* and bindEvents assigns the handlers on each of them
heapProcessData(m, a) ==
  LET resData == m.arrs[a]
      folders == sortObjects(m, SelectSeq(resData,
                                   LAMBDA o : IsFolder(m.objs[o].name)))
      files == sortObjects(m, SelectSeq(resData,
                                 LAMBDA o : ~IsFolder(m.objs[o].name)))
  IN [m EXCEPT !.objs = [o \in 1..Len(m.objs) |->
                           IF o \in Range(resData)
                           THEN [m.objs[o] EXCEPT
                                   !.fullname = Fullname(Root, m.objs[o].name),
                                   !.onClick = TRUE]
                           ELSE m.objs[o]],
               !.shown = folders \o files]

\* refresh() with the listing cached: processData(getCachedData(path))
heapRefresh(m) == IF m.stored = 0 THEN m ELSE heapProcessData(m, m.stored)

\* renameItem(item), accept: the PUT request leaves
heapRenameItem(m, item, name) ==
  IF name = "" \/ name = m.objs[item].name THEN m
  ELSE [m EXCEPT !.renaming = [obj |-> item, name |-> name]]

\* renameItem(item), .then: item.name = name; item.fullname = filename
\* (.catch: a toast)
heapRenameSettled(m, ok) ==
  LET item == m.renaming.obj
      m1 == [m EXCEPT !.renaming = NoRename]
  IN IF ok THEN [m1 EXCEPT !.objs[item].name = m.renaming.name,
                           !.objs[item].fullname =
                              Fullname(Root, m.renaming.name)]
     ELSE m1

\* ------------------------------------------------------------ cancellation
\* the keys: 'navigation' of requestWithCancel, and one more key, as the
\* registry takes any string
Keys == {"navigation", "thumbnail"}

\* the registry and the controllers as one record [reg, ctl, log]
\* controller.abort()
abort(st, id) ==
  [st EXCEPT !.ctl[id].aborted = TRUE,
             !.log = Append(st.log, <<"abort", id>>)]

\* cancellableRequest(key, url), run up to its await of api.fetchApi
cancellableRequest(st, key) ==
  LET existing == st.reg[key]
      st1 == IF existing # 0 THEN abort(st, existing) ELSE st
      controller == Len(st1.ctl) + 1
  IN [st1 EXCEPT !.ctl = Append(st1.ctl, [key |-> key, aborted |-> FALSE,
                                          running |-> TRUE]),
                 !.reg[key] = controller,
                 !.log = Append(st1.log, <<"fetch", controller>>)]

\* a variant whose finally block deletes the key whatever it holds
cancellableSettledAlways(st, controller) ==
  [st EXCEPT !.ctl[controller].running = FALSE,
             !.reg[st.ctl[controller].key] = 0]

\* the finally block of cancellableRequest, once its read has resolved,
\* failed or been aborted
cancellableSettled(st, controller) ==
  LET key == st.ctl[controller].key
      st1 == [st EXCEPT !.ctl[controller].running = FALSE]
  IN IF st.reg[key] = controller THEN [st1 EXCEPT !.reg[key] = 0] ELSE st1

\* cancelRequest(key)
cancelRequest(st, key) ==
  LET controller == st.reg[key]
  IN IF controller # 0
     THEN [abort(st, controller) EXCEPT !.reg[key] = 0]
     ELSE st

\* ------------------------------------------------------------------- state
VARIABLES
  folderCache,          \* the FolderCache singleton
  now,                  \* Date.now()
  quotaLeft,            \* entries sessionStorage can still take
  prefetchQueue,        \* requestManager: prefetchQueue
  activePrefetches,     \* requestManager: activePrefetches
  fetches,              \* the network slots
  inFlightRequests,     \* requestManager: inFlightRequests
  waiters,              \* callers suspended in `await request(...)`
  items,                \* explorer: items
  loading,              \* explorer: loading
  currentNavigationId,  \* explorer: currentNavigationId
  currentPath,          \* explorer: last breadcrumb's fullname
  rendered,             \* what processData was last given
  settled,              \* the read the last step settled, with its result
  lastDelete,           \* the delete answer the last step handled
  srv,                  \* the server's listing of each folder
  calls,                \* operations started so far, by kind, and under
                        \* settle the prefetch reads the scheduler saw end
  cacheOp,              \* the folder cache method the last step called
  abortControllers,     \* requestManager: abortControllers, key to controller
  controllers,          \* the AbortControllers created so far
  cancelLog,            \* the abort() and fetchApi calls made, in order
  history,              \* smartPrefetcher: history
  prefetchedPaths,      \* smartPrefetcher: prefetchedPaths
  handed,               \* the queuePrefetch calls of the last prefetcher call
  visits,               \* how often recordAccess was called, by path
  heap                  \* the item objects and listing arrays, by identity

vars == <<folderCache, now, quotaLeft, prefetchQueue, activePrefetches,
          fetches, inFlightRequests, waiters, items, loading,
          currentNavigationId, currentPath, rendered, settled, lastDelete,
          srv, calls, cacheOp, abortControllers, controllers, cancelLog,
          history, prefetchedPaths, handed, visits, heap>>

NoSettle == [url |-> <<>>, ok |-> FALSE, data |-> <<>>, fromCache |-> FALSE,
             callers |-> <<>>, toasts |-> 0]
NoOp == [name |-> "none", path |-> <<>>, item |-> "", dropped |-> 0]
NoDelete == [uri |-> <<>>, names |-> <<>>, ok |-> FALSE, refreshed |-> <<>>]

\* the client's state as one record
Cur ==
  [fc |-> folderCache, now |-> now, quota |-> quotaLeft,
   queue |-> prefetchQueue, active |-> activePrefetches, net |-> fetches,
   inflight |-> inFlightRequests, waiters |-> waiters, items |-> items,
   loading |-> loading, navId |-> currentNavigationId, path |-> currentPath,
   rendered |-> rendered, settled |-> NoSettle, lastDelete |-> NoDelete,
   op |-> NoOp, full |-> FALSE]

\* the step to the client state s
Becomes(s) ==
  /\ ~s.full
  /\ folderCache' = s.fc
  /\ prefetchQueue' = s.queue
  /\ activePrefetches' = s.active
  /\ fetches' = s.net
  /\ inFlightRequests' = s.inflight
  /\ waiters' = s.waiters
  /\ items' = s.items
  /\ loading' = s.loading
  /\ currentNavigationId' = s.navId
  /\ currentPath' = s.path
  /\ rendered' = s.rendered
  /\ settled' = s.settled
  /\ lastDelete' = s.lastDelete
  /\ cacheOp' = s.op

AllPaths == NavPaths \cup CachePaths

Init ==
  /\ folderCache = EmptyFolderCache
  /\ now = 0
  /\ quotaLeft = maxEntries
  /\ prefetchQueue = <<>>
  /\ activePrefetches = 0
  /\ fetches = [i \in FetchIds |-> Free]
  /\ inFlightRequests = [p \in AllPaths |-> 0]
  /\ waiters = <<>>
  /\ items = <<>>
  /\ loading = FALSE
  /\ currentNavigationId = 0
  /\ currentPath = Root
  /\ rendered = NoRender
  /\ settled = NoSettle
  /\ lastDelete = NoDelete
  /\ srv = [p \in NavPaths |-> NamesOf(p)]
  /\ calls = [nav |-> 0, del |-> 0, queue |-> 0, move |-> 0,
              record |-> 0, open |-> 0, mutate |-> 0, settle |-> 0]
  /\ cacheOp = NoOp
  /\ abortControllers = [key \in Keys |-> 0]
  /\ controllers = <<>>
  /\ cancelLog = <<>>
  /\ history = <<>>
  /\ prefetchedPaths = {}
  /\ handed = <<>>
  /\ visits = [p \in {} |-> 0]
  /\ heap = EmptyHeap

\* ----------------------------------------------------------------- actions
\* entryFolder / goBackParentFolder / navigateToPath: the breadcrumb changes
\* and refresh() runs; the refresh button calls refresh() on the same folder
\* refresh() calls cancelRequest('navigation') when the listing is not cached
refreshCancels(st, fc, path, t) ==
  IF getData(fc, path, t) = Null THEN cancelRequest(st, "navigation") ELSE st

Navigate(path) ==
  /\ calls.nav < MaxNav
  /\ Becomes(refresh([Cur EXCEPT !.path = path]))
  /\ calls' = [calls EXCEPT !.nav = @ + 1]
  /\ LET st == refreshCancels([reg |-> abortControllers, ctl |-> controllers,
                               log |-> cancelLog], folderCache, path, now)
     IN /\ abortControllers' = st.reg
        /\ controllers' = st.ctl
        /\ cancelLog' = st.log
  /\ UNCHANGED <<history, prefetchedPaths, handed, visits, heap,
                 now, quotaLeft, srv>>

\* onRefresh of the dialog: forceRefresh() of the folder shown
ForceRefresh ==
  /\ calls.nav < MaxNav
  /\ Becomes(forceRefresh(Cur))
  /\ calls' = [calls EXCEPT !.nav = @ + 1]
  /\ UNCHANGED <<abortControllers, controllers, cancelLog,
                 history, prefetchedPaths, handed, visits, heap,
                 now, quotaLeft, srv>>

\* the non-empty selections of a listing, in listing order
Selections(listing) ==
  {SelectSeq(listing, LAMBDA n : n \in chosen) :
     chosen \in SUBSET Range(listing)} \ {<<>>}

\* deleteItems with a non-empty selection of the items shown
DeleteItems(selected) ==
  /\ calls.del < MaxDelete
  /\ selected \in Selections(items)
  /\ Becomes(handleDelete(Cur, selected))
  /\ calls' = [calls EXCEPT !.del = @ + 1]
  /\ UNCHANGED <<abortControllers, controllers, cancelLog,
                 history, prefetchedPaths, handed, visits, heap,
                 now, quotaLeft, srv>>

\* the request r as answered by the server holding srvNow; `fails` is a
\* network failure or an error response
answered(srvNow, r, fails) ==
  IF fails \/ ~Exists(srvNow, r.url) THEN [r EXCEPT !.status = "error"]
  ELSE IF r.ifNoneMatch = ServerEtag(srvNow[r.url])
       THEN [r EXCEPT !.status = "304"]
       ELSE [r EXCEPT !.status = "200", !.data = srvNow[r.url],
                      !.etag = ServerEtag(srvNow[r.url])]

\* the server answers a folder read
ServerAnswersRead(id, fails) ==
  /\ fetches[id] # Free
  /\ fetches[id].kind \in {"read", "prefetch"}
  /\ fetches[id].status = "sent"
  /\ fetches' = [fetches EXCEPT ![id] = answered(srv, fetches[id], fails)]
  /\ settled' = NoSettle
  /\ lastDelete' = NoDelete
  /\ cacheOp' = NoOp
  /\ UNCHANGED <<abortControllers, controllers, cancelLog,
                 history, prefetchedPaths, handed, visits, heap,
                 folderCache, now, quotaLeft, prefetchQueue, activePrefetches,
                 inFlightRequests, waiters, items, loading,
                 currentNavigationId, currentPath, rendered, srv, calls>>

\* the server performs or rejects a delete
ServerAnswersDelete(id, rejects) ==
  /\ fetches[id] # Free
  /\ fetches[id].kind \in {"delete", "treeDelete"}
  /\ fetches[id].status = "sent"
  /\ LET r == fetches[id]
     IN IF rejects
        THEN /\ fetches' = [fetches EXCEPT ![id].status = "error"]
             /\ srv' = srv
        ELSE /\ fetches' = [fetches EXCEPT ![id].status = "200"]
             /\ srv' = [srv EXCEPT ![r.url] = Without(@, Range(r.names))]
  /\ settled' = NoSettle
  /\ lastDelete' = NoDelete
  /\ cacheOp' = NoOp
  /\ UNCHANGED <<abortControllers, controllers, cancelLog,
                 history, prefetchedPaths, handed, visits, heap,
                 folderCache, now, quotaLeft, prefetchQueue, activePrefetches,
                 inFlightRequests, waiters, items, loading,
                 currentNavigationId, currentPath, rendered, calls>>

\* the answer to a requestWithCache read reaches the client
ReadArrives(id) ==
  /\ fetches[id] # Free
  /\ fetches[id].kind = "read"
  /\ fetches[id].status \in {"200", "304", "error"}
  /\ Becomes(readSettled(Cur, id))
  /\ UNCHANGED <<abortControllers, controllers, cancelLog,
                 history, prefetchedPaths, handed, visits, heap,
                 now, quotaLeft, srv, calls>>

\* the answer to a prefetch read reaches the client
PrefetchArrives(id) ==
  /\ fetches[id] # Free
  /\ fetches[id].kind = "prefetch"
  /\ fetches[id].status \in {"200", "304", "error"}
  /\ Becomes(prefetchSettled(Cur, id))
  /\ UNCHANGED <<abortControllers, controllers, cancelLog,
                 history, prefetchedPaths, handed, visits, heap,
                 now, quotaLeft, srv, calls>>

\* the answer to a delete reaches the client
DeleteArrives(id) ==
  /\ fetches[id] # Free
  /\ fetches[id].kind = "delete"
  /\ fetches[id].status \in {"200", "error"}
  /\ Becomes(deleteSettled(Cur, id))
  /\ UNCHANGED <<abortControllers, controllers, cancelLog,
                 history, prefetchedPaths, handed, visits, heap,
                 now, quotaLeft, srv, calls>>

\* another program writes or removes the file of a folder
ServerChanges(path) ==
  /\ srv' = [srv EXCEPT ![path] =
       IF FileOf(path) \in Range(@) THEN Without(@, {FileOf(path)})
       ELSE sortNames(Append(@, FileOf(path)))]
  /\ settled' = NoSettle
  /\ lastDelete' = NoDelete
  /\ cacheOp' = NoOp
  /\ UNCHANGED <<abortControllers, controllers, cancelLog,
                 history, prefetchedPaths, handed, visits, heap,
                 folderCache, now, quotaLeft, prefetchQueue, activePrefetches,
                 fetches, inFlightRequests, waiters, items, loading,
                 currentNavigationId, currentPath, rendered, calls>>

\* time passes
Tick ==
  /\ now < MaxNow
  /\ now' = now + 1
  /\ settled' = NoSettle
  /\ lastDelete' = NoDelete
  /\ cacheOp' = NoOp
  /\ UNCHANGED <<abortControllers, controllers, cancelLog,
                 history, prefetchedPaths, handed, visits, heap,
                 folderCache, quotaLeft, prefetchQueue, activePrefetches,
                 fetches, inFlightRequests, waiters, items, loading,
                 currentNavigationId, currentPath, rendered, srv, calls>>

\* the storage left to the origin changes
Quotas == {0, maxEntries}

StorageChanges(q) ==
  /\ q # quotaLeft
  /\ quotaLeft' = q
  /\ settled' = NoSettle
  /\ lastDelete' = NoDelete
  /\ cacheOp' = NoOp
  /\ UNCHANGED <<abortControllers, controllers, cancelLog,
                 history, prefetchedPaths, handed, visits, heap,
                 folderCache, now, prefetchQueue, activePrefetches,
                 fetches, inFlightRequests, waiters, items, loading,
                 currentNavigationId, currentPath, rendered, srv, calls>>

\* the explorer with its server: navigation, other programs writing to the
\* output folder, the storage quota moving; the clock stands still
Next ==
  \/ \E path \in NavPaths : Navigate(path)
  \/ ForceRefresh
  \/ \E id \in FetchIds, fails \in BOOLEAN : ServerAnswersRead(id, fails)
  \/ \E id \in FetchIds : ReadArrives(id)
  \/ \E id \in FetchIds : PrefetchArrives(id)
  \/ ServerChanges(Root)
  \/ \E q \in Quotas : StorageChanges(q)

Spec == Init /\ [][Next]_vars

\* the explorer while the user deletes items: navigation and deletes, each
\* delete answered or rejected by the server
NextDelete ==
  \/ \E path \in NavPaths : Navigate(path)
  \/ \E selected \in Selections(<<"d", "f", "g">>) : DeleteItems(selected)
  \/ \E id \in FetchIds, fails \in BOOLEAN : ServerAnswersRead(id, fails)
  \/ \E id \in FetchIds, rejects \in BOOLEAN : ServerAnswersDelete(id, rejects)
  \/ \E id \in FetchIds : ReadArrives(id)
  \/ \E id \in FetchIds : PrefetchArrives(id)
  \/ \E id \in FetchIds : DeleteArrives(id)

SpecDelete == Init /\ [][NextDelete]_vars

\* ------------------------------------------------ deletes from the folder tree
\* the folders of the tree that the user deletes
TreeNodes == {Sub}

\* the user deletes a folder from the context menu of the folder tree
TreeDeleteFolder(node) ==
  /\ calls.del < MaxDelete
  /\ Exists(srv, node)
  /\ Becomes(deleteFolder(Cur, node))
  /\ calls' = [calls EXCEPT !.del = @ + 1]
  /\ UNCHANGED <<abortControllers, controllers, cancelLog,
                 history, prefetchedPaths, handed, visits, heap,
                 now, quotaLeft, srv>>

\* the answer to the tree's delete request reaches the client
TreeDeleteArrives(id) ==
  /\ fetches[id] # Free
  /\ fetches[id].kind = "treeDelete"
  /\ fetches[id].status \in {"200", "error"}
  /\ Becomes(treeDeleteSettled(Cur, id))
  /\ UNCHANGED <<abortControllers, controllers, cancelLog,
                 history, prefetchedPaths, handed, visits, heap,
                 now, quotaLeft, srv, calls>>

NextTree ==
  \/ \E path \in NavPaths : Navigate(path)
  \/ \E selected \in Selections(<<"d", "f", "g">>) : DeleteItems(selected)
  \/ \E node \in TreeNodes : TreeDeleteFolder(node)
  \/ \E id \in FetchIds, fails \in BOOLEAN : ServerAnswersRead(id, fails)
  \/ \E id \in FetchIds, rejects \in BOOLEAN : ServerAnswersDelete(id, rejects)
  \/ \E id \in FetchIds : ReadArrives(id)
  \/ \E id \in FetchIds : DeleteArrives(id)
  \/ \E id \in FetchIds : TreeDeleteArrives(id)

SpecTree == Init /\ [][NextTree]_vars

\* --------------------------------------------------------------------- moves
\* the moves the user makes: the folder /o/d dropped on /o/c, and the file
\* /o/f dropped on /o/d
Moves ==
  {[files |-> <<Sub>>, targetFolder |-> Other],
   [files |-> <<Fullname(Root, FileOf(Root))>>, targetFolder |-> Sub]}

\* the user drops dragged items on a folder
MoveFiles(move) ==
  /\ calls.move < MaxMove
  /\ \A i \in 1..Len(move.files) :
       move.files[i][Len(move.files[i])] \in Range(srv[ParentOf(move.files[i])])
  /\ Exists(srv, move.targetFolder)
  /\ Becomes(onMoveFiles(Cur, move.files, move.targetFolder))
  /\ calls' = [calls EXCEPT !.move = @ + 1]
  /\ UNCHANGED <<abortControllers, controllers, cancelLog,
                 history, prefetchedPaths, handed, visits, heap,
                 now, quotaLeft, srv>>

\* the server moves the items, or rejects the request
ServerAnswersMove(id, rejects) ==
  /\ fetches[id] # Free
  /\ fetches[id].kind = "move"
  /\ fetches[id].status = "sent"
  /\ LET r == fetches[id]
         moved == {r.names[i][Len(r.names[i])] : i \in 1..Len(r.names)}
         left == [p \in DOMAIN srv |->
                    IF \E i \in 1..Len(r.names) : ParentOf(r.names[i]) = p
                    THEN Without(srv[p], moved) ELSE srv[p]]
     IN IF rejects
        THEN /\ fetches' = [fetches EXCEPT ![id].status = "error"]
             /\ srv' = srv
        ELSE /\ fetches' = [fetches EXCEPT ![id].status = "200"]
             /\ srv' = [p \in DOMAIN srv |->
                          IF p = r.url
                          THEN left[p] \o [i \in 1..Len(r.names) |->
                                             r.names[i][Len(r.names[i])]]
                          ELSE left[p]]
  /\ settled' = NoSettle
  /\ lastDelete' = NoDelete
  /\ cacheOp' = NoOp
  /\ UNCHANGED <<abortControllers, controllers, cancelLog,
                 history, prefetchedPaths, handed, visits, heap,
                 folderCache, now, quotaLeft, prefetchQueue, activePrefetches,
                 inFlightRequests, waiters, items, loading,
                 currentNavigationId, currentPath, rendered, calls>>

\* the answer to the move request reaches the client
MoveArrives(id) ==
  /\ fetches[id] # Free
  /\ fetches[id].kind = "move"
  /\ fetches[id].status \in {"200", "error"}
  /\ Becomes(moveSettled(Cur, id))
  /\ UNCHANGED <<abortControllers, controllers, cancelLog,
                 history, prefetchedPaths, handed, visits, heap,
                 now, quotaLeft, srv, calls>>

NextMove ==
  \/ \E path \in NavPaths : Navigate(path)
  \/ \E move \in Moves : MoveFiles(move)
  \/ \E id \in FetchIds, fails \in BOOLEAN : ServerAnswersRead(id, fails)
  \/ \E id \in FetchIds, rejects \in BOOLEAN : ServerAnswersMove(id, rejects)
  \/ \E id \in FetchIds : ReadArrives(id)
  \/ \E id \in FetchIds : MoveArrives(id)

SpecMove == Init /\ [][NextMove]_vars

\* ----------------------------------------------------------------- creations
\* the user creates a prompt file in the folder shown
CreateNewPrompt ==
  /\ calls.mutate < MaxMutate
  /\ Becomes(createNewPrompt(Cur, "p"))
  /\ calls' = [calls EXCEPT !.mutate = @ + 1]
  /\ UNCHANGED <<abortControllers, controllers, cancelLog,
                 history, prefetchedPaths, handed, visits, heap,
                 now, quotaLeft, srv>>

\* the user uploads a file into the folder shown
CreateItems ==
  /\ calls.mutate < MaxMutate
  /\ Becomes(createItems(Cur, "u"))
  /\ calls' = [calls EXCEPT !.mutate = @ + 1]
  /\ UNCHANGED <<abortControllers, controllers, cancelLog,
                 history, prefetchedPaths, handed, visits, heap,
                 now, quotaLeft, srv>>

\* the server creates the file, or rejects the request
ServerAnswersCreate(id, rejects) ==
  /\ fetches[id] # Free
  /\ fetches[id].kind \in {"createNewPrompt", "createItems"}
  /\ fetches[id].status = "sent"
  /\ LET r == fetches[id]
     IN IF rejects \/ ~Exists(srv, r.url)
        THEN /\ fetches' = [fetches EXCEPT ![id].status = "error"]
             /\ srv' = srv
        ELSE /\ fetches' = [fetches EXCEPT ![id].status = "200"]
             /\ srv' = [srv EXCEPT ![r.url] =
                          Without(@, Range(r.names)) \o r.names]
  /\ settled' = NoSettle
  /\ lastDelete' = NoDelete
  /\ cacheOp' = NoOp
  /\ UNCHANGED <<abortControllers, controllers, cancelLog,
                 history, prefetchedPaths, handed, visits, heap,
                 folderCache, now, quotaLeft, prefetchQueue, activePrefetches,
                 inFlightRequests, waiters, items, loading,
                 currentNavigationId, currentPath, rendered, calls>>

\* the answer to the request reaches the client
CreateArrives(id) ==
  /\ fetches[id] # Free
  /\ fetches[id].kind \in {"createNewPrompt", "createItems"}
  /\ fetches[id].status \in {"200", "error"}
  /\ Becomes(IF fetches[id].kind = "createNewPrompt"
             THEN createNewPromptSettled(Cur, id)
             ELSE createItemsSettled(Cur, id))
  /\ UNCHANGED <<abortControllers, controllers, cancelLog,
                 history, prefetchedPaths, handed, visits, heap,
                 now, quotaLeft, srv, calls>>

NextCreate ==
  \/ \E path \in NavPaths : Navigate(path)
  \/ CreateNewPrompt
  \/ CreateItems
  \/ \E id \in FetchIds, fails \in BOOLEAN : ServerAnswersRead(id, fails)
  \/ \E id \in FetchIds, rejects \in BOOLEAN : ServerAnswersCreate(id, rejects)
  \/ \E id \in FetchIds : ReadArrives(id)
  \/ \E id \in FetchIds : PrefetchArrives(id)
  \/ \E id \in FetchIds : CreateArrives(id)

SpecCreate == Init /\ [][NextCreate]_vars

\* ------------------------------------------------- edits of a changing folder
\* the explorer while the user deletes items from a folder that other
\* programs write to
NextEdit ==
  \/ \E path \in NavPaths : Navigate(path)
  \/ \E selected \in Selections(<<"d", "f", "g">>) : DeleteItems(selected)
  \/ \E id \in FetchIds, fails \in BOOLEAN : ServerAnswersRead(id, fails)
  \/ \E id \in FetchIds, rejects \in BOOLEAN : ServerAnswersDelete(id, rejects)
  \/ \E id \in FetchIds : ReadArrives(id)
  \/ \E id \in FetchIds : PrefetchArrives(id)
  \/ \E id \in FetchIds : DeleteArrives(id)
  \/ ServerChanges(Root)

SpecEdit == Init /\ [][NextEdit]_vars

\* the explorer while cache entries age: navigation under a running clock
NextAging ==
  \/ \E path \in NavPaths : Navigate(path)
  \/ ForceRefresh
  \/ \E id \in FetchIds, fails \in BOOLEAN : ServerAnswersRead(id, fails)
  \/ \E id \in FetchIds : ReadArrives(id)
  \/ \E id \in FetchIds : PrefetchArrives(id)
  \/ ServerChanges(Root)
  \/ Tick
  \/ \E q \in Quotas : StorageChanges(q)

SpecAging == Init /\ [][NextAging]_vars

\* ---------------------------------------------- the prefetch scheduler alone
\* folders handed to queuePrefetch: more than the workers allowed
PrefetchNames == <<"p", "q", "r", "s">>
PrefetchList == [i \in 1..Len(PrefetchNames) |-> Fullname(Root, PrefetchNames[i])]
PrefetchPaths == Range(PrefetchList)

\* the network takes more reads than the scheduler may start
PrefetchIds == 1..(MAX_CONCURRENT_PREFETCH + 2)

\* the arguments of the queuePrefetch calls: all the folders, or the first two
PrefetchBatches == {PrefetchList, SubSeq(PrefetchList, 1, 2)}

InitPrefetch ==
  /\ folderCache = EmptyFolderCache
  /\ now = 0
  /\ quotaLeft = maxEntries
  /\ prefetchQueue = <<>>
  /\ activePrefetches = 0
  /\ fetches = [i \in PrefetchIds |-> Free]
  /\ inFlightRequests = [p \in AllPaths |-> 0]
  /\ waiters = <<>>
  /\ items = <<>>
  /\ loading = FALSE
  /\ currentNavigationId = 0
  /\ currentPath = Root
  /\ rendered = NoRender
  /\ settled = NoSettle
  /\ lastDelete = NoDelete
  /\ srv = [p \in PrefetchPaths |-> NamesOf(p)]
  /\ calls = [nav |-> 0, del |-> 0, queue |-> 0, move |-> 0,
              record |-> 0, open |-> 0, mutate |-> 0, settle |-> 0]
  /\ cacheOp = NoOp
  /\ abortControllers = [key \in Keys |-> 0]
  /\ controllers = <<>>
  /\ cancelLog = <<>>
  /\ history = <<>>
  /\ prefetchedPaths = {}
  /\ handed = <<>>
  /\ visits = [p \in {} |-> 0]
  /\ heap = EmptyHeap

\* prefetchFolders / queuePrefetch(paths, priority)
QueuePrefetch(paths, priority) ==
  /\ calls.queue < MaxQueueCalls
  /\ Becomes(queuePrefetch(Cur, paths, priority))
  /\ calls' = [calls EXCEPT !.queue = @ + 1]
  /\ UNCHANGED <<abortControllers, controllers, cancelLog,
                 history, prefetchedPaths, handed, visits, heap,
                 now, quotaLeft, srv>>

\* a prefetch read completes: the server's answer reaches fetchAndCache
PrefetchCompletes(id, fails) ==
  /\ fetches[id] # Free
  /\ fetches[id].kind = "prefetch"
  /\ fetches[id].status = "sent"
  /\ Becomes(prefetchSettled(
        [Cur EXCEPT !.net[id] = answered(srv, fetches[id], fails)], id))
  /\ calls' = [calls EXCEPT !.settle = @ + 1]
  /\ UNCHANGED <<abortControllers, controllers, cancelLog,
                 history, prefetchedPaths, handed, visits, heap,
                 now, quotaLeft, srv>>

NextPrefetch ==
  \/ \E paths \in PrefetchBatches, priority \in {0, 1} :
       QueuePrefetch(paths, priority)
  \/ \E id \in PrefetchIds, fails \in BOOLEAN : PrefetchCompletes(id, fails)

SpecPrefetch == InitPrefetch /\ [][NextPrefetch]_vars

\* a prefetch read in flight settles. PrefetchCompletes is the one step that
\* counts under calls.settle, so a step of PrefetchSettles that changes calls
\* is a step of PrefetchCompletes, and the one is enabled when the other is.
PrefetchSettles ==
  /\ \E id \in PrefetchIds :
       /\ fetches[id] # Free
       /\ fetches[id].kind = "prefetch"
       /\ fetches[id].status = "sent"
  /\ calls' = [calls EXCEPT !.settle = @ + 1]

\* the scheduler when every prefetch read sent eventually settles
SpecPrefetchFair ==
  /\ InitPrefetch
  /\ [][NextPrefetch]_vars
  /\ WF_calls(PrefetchSettles)

\* ------------------------------------------------- the folder cache alone
\* what set is given: a listing with the server's validator, or an
\* optimistic listing with the empty validator
CacheValues ==
  {[data |-> <<"g">>, etag |-> ServerEtag(<<"g">>)],
   [data |-> <<>>, etag |-> EmptyEtag]}

CacheStep(c, name, path, item) ==
  /\ folderCache' = c
  /\ cacheOp' = [name |-> name, path |-> path, item |-> item,
                 dropped |-> Cardinality(Range(MapKeys(folderCache))
                                           \ Range(MapKeys(c)))]
  /\ settled' = NoSettle
  /\ lastDelete' = NoDelete
  /\ UNCHANGED <<abortControllers, controllers, cancelLog,
                 history, prefetchedPaths, handed, visits, heap,
                 now, quotaLeft, prefetchQueue, activePrefetches, fetches,
                 inFlightRequests, waiters, items, loading,
                 currentNavigationId, currentPath, rendered, srv, calls>>

CacheSet(path, v) ==
  CacheStep(set(folderCache, path, v.data, v.etag, now, quotaLeft), "set", path, "")

\* get, and getData and has, which only call get
CacheGet(path) == CacheStep(getCache(folderCache, path, now), "get", path, "")

CacheInvalidate(path) ==
  CacheStep(invalidate(folderCache, path, quotaLeft), "invalidate", path, "")

CacheInvalidatePrefix(prefix) ==
  CacheStep(invalidatePrefix(folderCache, prefix, quotaLeft),
            "invalidatePrefix", prefix, "")

CacheClear == CacheStep(clear(folderCache), "clear", <<>>, "")

\* optimisticRemove(folderPath, itemName) of the request manager
CacheOptimisticRemove(path, itemName) ==
  CacheStep(optimisticRemove(Cur, path, itemName).fc, "optimisticRemove",
            path, itemName)

\* the quota is independent of maxEntries: the storage may take more entries
\* than the cache is configured to hold
CacheQuotas == 0..(maxEntries + 1)

NextCache ==
  \/ \E path \in CachePaths, v \in CacheValues : CacheSet(path, v)
  \/ \E path \in CachePaths : CacheGet(path)
  \/ \E path \in CachePaths : CacheInvalidate(path)
  \/ \E prefix \in CachePaths : CacheInvalidatePrefix(prefix)
  \/ CacheClear
  \/ \E path \in CachePaths : CacheOptimisticRemove(path, "g")
  \/ Tick
  \/ \E q \in CacheQuotas : StorageChanges(q)

SpecCache == Init /\ [][NextCache]_vars

\* ------------------------------------------- the folder cache after a reload
\* what an earlier page may have left in sessionStorage: up to maxEntries
\* entries of distinct keys, written at the time of the load or one tick
\* before it
StoredEntries ==
  {[path |-> p, data |-> v.data, etag |-> v.etag, timestamp |-> t] :
     p \in CachePaths, v \in CacheValues, t \in {0 - 1, 0}}

StoredMaps ==
  {stored \in UNION {[1..n -> StoredEntries] : n \in 0..maxEntries} :
     \A i, j \in 1..Len(stored) : stored[i].path = stored[j].path => i = j}

\* the state after construction when sessionStorage is not empty
InitLoad ==
  /\ folderCache \in {loadFromStorage(stored, 0) : stored \in StoredMaps}
  /\ now = 0
  /\ quotaLeft = maxEntries
  /\ prefetchQueue = <<>>
  /\ activePrefetches = 0
  /\ fetches = [i \in FetchIds |-> Free]
  /\ inFlightRequests = [p \in AllPaths |-> 0]
  /\ waiters = <<>>
  /\ items = <<>>
  /\ loading = FALSE
  /\ currentNavigationId = 0
  /\ currentPath = Root
  /\ rendered = NoRender
  /\ settled = NoSettle
  /\ lastDelete = NoDelete
  /\ srv = [p \in NavPaths |-> NamesOf(p)]
  /\ calls = [nav |-> 0, del |-> 0, queue |-> 0, move |-> 0,
              record |-> 0, open |-> 0, mutate |-> 0, settle |-> 0]
  /\ cacheOp = NoOp
  /\ abortControllers = [key \in Keys |-> 0]
  /\ controllers = <<>>
  /\ cancelLog = <<>>
  /\ history = <<>>
  /\ prefetchedPaths = {}
  /\ handed = <<>>
  /\ visits = [p \in {} |-> 0]
  /\ heap = EmptyHeap

SpecLoad == InitLoad /\ [][NextCache]_vars

\* ------------------------------------------ the optimistic updates alone
OptimisticPaths == {Sub, Other}
RenamedTo == "h"

\* optimisticAdd(folderPath, newItem); the listing is capped
CacheOptimisticAdd(path, newItem) ==
  /\ \A i \in 1..Len(folderCache.cache) :
       folderCache.cache[i].path = path =>
         Len(folderCache.cache[i].data) < MaxListing
  /\ CacheStep(optimisticAdd(Cur, path, newItem).fc, "optimisticAdd", path,
               newItem)

\* optimisticRename(folderPath, oldName, RenamedTo)
CacheOptimisticRename(path, oldName) ==
  CacheStep(optimisticRename(Cur, path, oldName, RenamedTo).fc,
            "optimisticRename", path, oldName)

NextOptimistic ==
  \/ \E path \in OptimisticPaths, v \in CacheValues : CacheSet(path, v)
  \/ \E path \in OptimisticPaths : CacheOptimisticAdd(path, "f")
  \/ \E path \in OptimisticPaths : CacheOptimisticRemove(path, "g")
  \/ \E path \in OptimisticPaths : CacheOptimisticRename(path, "g")
  \/ Tick
  \/ \E q \in CacheQuotas : StorageChanges(q)

SpecOptimistic == Init /\ [][NextOptimistic]_vars

\* ------------------------------------------------ the cancellation registry alone
CurCancel == [reg |-> abortControllers, ctl |-> controllers, log |-> cancelLog]

CancelStep(st) ==
  /\ abortControllers' = st.reg
  /\ controllers' = st.ctl
  /\ cancelLog' = st.log
  /\ UNCHANGED <<folderCache, now, quotaLeft, prefetchQueue, activePrefetches,
                 fetches, inFlightRequests, waiters, items, loading,
                 currentNavigationId, currentPath, rendered, settled,
                 lastDelete, srv, calls, cacheOp,
                 history, prefetchedPaths, handed, visits, heap>>

\* a caller starts cancellableRequest(key, url)
CancellableRequest(key) ==
  /\ Len(controllers) < MaxCancellable
  /\ CancelStep(cancellableRequest(CurCancel, key))

\* the read of a cancellable request ends, by an answer, a failure or an
\* AbortError, and its finally block runs
CancellableSettles(controller) ==
  /\ controller \in 1..Len(controllers)
  /\ controllers[controller].running
  /\ CancelStep(cancellableSettled(CurCancel, controller))

\* a caller calls cancelRequest(key)
CancelRequest(key) ==
  CancelStep(cancelRequest(CurCancel, key))

NextCancel ==
  \/ \E key \in Keys : CancellableRequest(key)
  \/ \E controller \in 1..(MaxCancellable + 1) : CancellableSettles(controller)
  \/ \E key \in Keys : CancelRequest(key)

SpecCancel == Init /\ [][NextCancel]_vars

\* ---------------------------------------------------- the smart prefetcher
\* the folder opened, its children, its siblings (the folder itself among
\* them) and the folders of the history; the most visited folder of the
\* history is the first child
PredictPath(name) == <<"/", name>>
OpenedPath == PredictPath("cur")
ChildPaths == [i \in 1..11 |-> PredictPath("c" \o ToString(i))]
SiblingPaths ==
  <<OpenedPath>> \o [i \in 1..6 |-> PredictPath("s" \o ToString(i))]
HistoryPath(i) == IF i = 1 THEN ChildPaths[1] ELSE PredictPath("h" \o ToString(i))
HistoryPaths == {HistoryPath(i) : i \in 1..(maxHistorySize + 1)}
PredictPaths == Range(ChildPaths) \cup Range(SiblingPaths) \cup HistoryPaths

\* a history of maxHistorySize folders loaded from localStorage: the oldest
\* records have the highest counts
FullHistory ==
  [i \in 1..maxHistorySize |->
     [path |-> HistoryPath(maxHistorySize + 1 - i), timestamp |-> 0 - i,
      count |-> (i + 1) \div 2]]

\* a history of maxHistorySize folders, all recorded within the clock value
\* of the start
BurstHistory ==
  [i \in 1..maxHistorySize |->
     [path |-> HistoryPath(i), timestamp |-> 0, count |-> 1]]

VisitsOf(h) ==
  [p \in PredictPaths |->
     IF \E i \in 1..Len(h) : h[i].path = p
     THEN h[CHOOSE i \in 1..Len(h) : h[i].path = p].count ELSE 0]

\* the listings of the first child and of the first sibling, cached on an
\* earlier visit
VisitedFolderCache ==
  set(set(EmptyFolderCache, ChildPaths[1], <<"g">>, ServerEtag(<<"g">>), 0,
          maxEntries),
      SiblingPaths[2], <<"g">>, ServerEtag(<<"g">>), 0, maxEntries)

InitPredict ==
  /\ folderCache \in {EmptyFolderCache, VisitedFolderCache}
  /\ now = 0
  /\ quotaLeft = maxEntries
  /\ prefetchQueue = <<>>
  /\ activePrefetches = 0
  /\ fetches = [i \in PrefetchIds |-> Free]
  /\ inFlightRequests = [p \in AllPaths |-> 0]
  /\ waiters = <<>>
  /\ items = <<>>
  /\ loading = FALSE
  /\ currentNavigationId = 0
  /\ currentPath = Root
  /\ rendered = NoRender
  /\ settled = NoSettle
  /\ lastDelete = NoDelete
  /\ srv = [p \in PredictPaths |-> <<"g">>]
  /\ calls = [nav |-> 0, del |-> 0, queue |-> 0, move |-> 0,
              record |-> 0, open |-> 0, mutate |-> 0, settle |-> 0]
  /\ cacheOp = NoOp
  /\ abortControllers = [key \in Keys |-> 0]
  /\ controllers = <<>>
  /\ cancelLog = <<>>
  /\ history \in {<<>>, FullHistory, BurstHistory}
  /\ prefetchedPaths = {}
  /\ handed = <<>>
  /\ visits = VisitsOf(history)
  /\ heap = EmptyHeap

\* the prefetcher's call ends in the state p
PredictStep(p) ==
  /\ Becomes(p.s)
  /\ prefetchedPaths' = p.prefetched
  /\ handed' = p.handed
  /\ UNCHANGED <<abortControllers, controllers, cancelLog,
                 history, visits, heap, now, quotaLeft, srv>>

\* recordAccess(path)
RecordAccess(path) ==
  /\ calls.record < MaxRecord
  /\ history' = recordAccess(history, path, now)
  /\ visits' = [visits EXCEPT ![path] = @ + 1]
  /\ calls' = [calls EXCEPT !.record = @ + 1]
  /\ settled' = NoSettle
  /\ lastDelete' = NoDelete
  /\ cacheOp' = NoOp
  /\ UNCHANGED <<abortControllers, controllers, cancelLog,
                 prefetchedPaths, handed, heap,
                 folderCache, now, quotaLeft, prefetchQueue, activePrefetches,
                 fetches, inFlightRequests, waiters, items, loading,
                 currentNavigationId, currentPath, rendered, srv>>

\* onFolderOpen(currentPath, siblings, children)
FolderOpen(siblings, children) ==
  /\ calls.open < MaxOpen
  /\ PredictStep(onFolderOpen(Cur, prefetchedPaths, history, OpenedPath,
                              siblings, children))
  /\ calls' = [calls EXCEPT !.open = @ + 1]

\* onFolderHover(path, hoverDuration)
FolderHover(path, hoverDuration) ==
  /\ calls.open < MaxOpen
  /\ PredictStep(onFolderHover(Cur, prefetchedPaths, path, hoverDuration))
  /\ calls' = [calls EXCEPT !.open = @ + 1]

\* onNavigateUp(currentPath, parentPath, parentSiblings)
NavigateUp(parentSiblings) ==
  /\ calls.open < MaxOpen
  /\ PredictStep(onNavigateUp(Cur, prefetchedPaths, parentSiblings))
  /\ calls' = [calls EXCEPT !.open = @ + 1]

\* clearPrefetchedCache()
ClearPrefetchedCache ==
  /\ prefetchedPaths # {}
  /\ prefetchedPaths' = {}
  /\ settled' = NoSettle
  /\ lastDelete' = NoDelete
  /\ cacheOp' = NoOp
  /\ UNCHANGED <<abortControllers, controllers, cancelLog,
                 history, handed, visits, heap,
                 folderCache, now, quotaLeft, prefetchQueue, activePrefetches,
                 fetches, inFlightRequests, waiters, items, loading,
                 currentNavigationId, currentPath, rendered, srv, calls>>

\* the access history alone
NextHistory ==
  \/ \E path \in HistoryPaths : RecordAccess(path)
  \/ Tick

SpecHistory == InitPredict /\ [][NextHistory]_vars

\* the prefetcher over a loaded history, the scheduler and the folder cache;
\* the reads it queues are left in flight
NextPredict ==
  \/ \E siblings \in {<<>>, SiblingPaths},
        children \in {ChildPaths, SubSeq(ChildPaths, 1, 2)} :
       FolderOpen(siblings, children)
  \/ \E hoverDuration \in {300, 301} :
       FolderHover(HistoryPath(2), hoverDuration)
  \/ NavigateUp(SubSeq(SiblingPaths, 2, 3))
  \/ ClearPrefetchedCache
  \/ \E prefix \in {PredictPath("c1"), <<"/">>} : CacheInvalidatePrefix(prefix)
  \/ CacheClear

SpecPredict == InitPredict /\ [][NextPredict]_vars

\* ------------------------------------------- one folder's listing by identity
HeapListings == {<<"d", "f">>, <<"f">>}
HeapNames == {"d", "f", "r"}

HeapStep(m) ==
  /\ Len(m.arrs) <= MaxArrays
  /\ heap' = m
  /\ settled' = NoSettle
  /\ lastDelete' = NoDelete
  /\ cacheOp' = NoOp
  /\ UNCHANGED <<abortControllers, controllers, cancelLog,
                 history, prefetchedPaths, handed, visits,
                 folderCache, now, quotaLeft, prefetchQueue, activePrefetches,
                 fetches, inFlightRequests, waiters, items, loading,
                 currentNavigationId, currentPath, rendered, srv, calls>>

\* requestWithCache stores the listing of a 200 response and refresh
\* renders the array it stored
HeapTransportWrite(names) ==
  /\ Len(heap.objs) + Len(names) <= MaxObjects
  /\ HeapStep(heapRefresh(heapWrite(heap, names)))

\* prefetchFolders stores the listing of a batch result
HeapPrefetchWrite(names) ==
  /\ Len(heap.objs) + Len(names) <= MaxObjects
  /\ HeapStep(heapWrite(heap, names))

HeapOptimisticAdd(name) ==
  /\ Len(heap.objs) + 1 <= MaxObjects
  /\ HeapStep(heapOptimisticAdd(heap, name))

HeapOptimisticRemove(itemName) ==
  HeapStep(heapOptimisticRemove(heap, itemName))

HeapOptimisticRename(oldName, newName) ==
  /\ Len(heap.objs) + 1 <= MaxObjects
  /\ HeapStep(heapOptimisticRename(heap, oldName, newName))

\* a reader calls getCachedData
HeapGetData ==
  /\ heap.stored # 0
  /\ HeapStep(heapGetData(heap))

\* refresh() finds the listing cached and renders it
HeapRefresh ==
  /\ heap.stored # 0
  /\ HeapStep(heapRefresh(heap))

\* the user renames an item shown
HeapRenameItem(i, name) ==
  /\ i \in 1..Len(heap.shown)
  /\ heap.renaming = NoRename
  /\ HeapStep(heapRenameItem(heap, heap.shown[i], name))

HeapRenameSettles(ok) ==
  /\ heap.renaming # NoRename
  /\ HeapStep(heapRenameSettled(heap, ok))

NextHeap ==
  \/ \E names \in HeapListings : HeapTransportWrite(names)
  \/ \E names \in HeapListings : HeapPrefetchWrite(names)
  \/ \E name \in HeapNames : HeapOptimisticAdd(name)
  \/ \E itemName \in HeapNames : HeapOptimisticRemove(itemName)
  \/ \E oldName \in HeapNames : HeapOptimisticRename(oldName, "r")
  \/ HeapGetData
  \/ HeapRefresh
  \/ \E i \in 1..MaxObjects, name \in {"r", ""} : HeapRenameItem(i, name)
  \/ \E ok \in BOOLEAN : HeapRenameSettles(ok)

SpecHeap == Init /\ [][NextHeap]_vars

\* ================================================================== claims
Under(path, prefix) == StartsWith(path, prefix)

KeysOf(c) == Range(MapKeys(c))

\* the entries of c whose path does not start with prefix, in Map order
Outside(c, prefix) == SelectSeq(c.cache, LAMBDA e : ~Under(e.path, prefix))

\* the step is a call of the folder cache method `name`
Called(name) == cacheOp'.name = name

\* the slots holding a requestWithCache read of url
ReadsOf(net, url) ==
  {i \in DOMAIN net : net[i] # Free /\ net[i].kind = "read" /\ net[i].url = url}

\* C1: the calls of requestWithCache made for a url while an earlier call for
\* it is unsettled share one network fetch: at any time a url has at most one
\* read in flight, and every caller waiting for a read of the url waits for
\* that one fetch, the one registered for the url; when it settles all of them
\* get its outcome in the same step.
C1_OneFetchPerUrl ==
  /\ \A url \in NavPaths : Cardinality(ReadsOf(fetches, url)) <= 1
  /\ \A i \in 1..Len(waiters) :
       /\ fetches[waiters[i].fetch] # Free
       /\ fetches[waiters[i].fetch].kind = "read"
       /\ inFlightRequests[fetches[waiters[i].fetch].url] = waiters[i].fetch

\* a read settled with success and two callers were waiting for it
C1_Witness ==
  /\ settled.ok
  /\ Len(settled.callers) >= 2

\* C2: the items on screen are never made from a read whose navigation id is
\* not the current one: what is rendered was rendered by the current
\* navigation, from the listing of the current path.
C2_OnlyCurrentRendered ==
  rendered # NoRender =>
    /\ rendered.navigationId = currentNavigationId
    /\ rendered.url = currentPath

\* the read of a navigation to another path settled with success after a
\* later navigation had started, and the screen shows the later path
C2_Witness ==
  /\ settled.ok
  /\ settled.url # currentPath
  /\ \E i \in 1..Len(settled.callers) :
       /\ settled.callers[i].kind \in {"refresh", "forceRefresh"}
       /\ settled.callers[i].navigationId # currentNavigationId
  /\ rendered = NoRender \/ rendered.url = currentPath

\* C3 (as stated): a 304 that finds no listing in the store falls back to an
\* unconditional read and the callers get the server's listing: no read is
\* left with a promise that can never settle.
C3_FallbackSettles ==
  \A i \in DOMAIN fetches : fetches[i] # Free => fetches[i].status # "stuck"

\* C4: when a read is answered 304 and a listing is cached for its url, the
\* callers get that cached listing with fromCache = true, and the entry of the
\* url is the same afterwards: listing, validator and timestamp.
C4_NotModifiedKeepsEntry ==
  [][\A id \in DOMAIN fetches :
       (/\ fetches[id] # Free
        /\ fetches[id].kind = "read"
        /\ fetches[id].status = "304"
        /\ fetches'[id] # fetches[id]
        /\ getEntry(folderCache, fetches[id].url, now) # Null)
       => /\ settled'.url = fetches[id].url
          /\ settled'.ok
          /\ settled'.fromCache
          /\ settled'.data = getEntry(folderCache, fetches[id].url, now).data
          /\ MapGet(folderCache', fetches[id].url) =
               MapGet(folderCache, fetches[id].url)]_vars

\* a 304 was answered from an entry stored at an earlier time, which is
\* still the entry of the url
C4_Witness ==
  /\ settled.ok
  /\ settled.fromCache
  /\ MapGet(folderCache, settled.url) # Null
  /\ MapGet(folderCache, settled.url).timestamp < now
  /\ MapGet(folderCache, settled.url).data = settled.data

\* C5 (as stated): the listing forceRefresh renders comes from a network
\* request started after its invalidation (not one it joined) that carried no
\* validator, never from the cache.
C5_FreshUnconditionalRead ==
  (rendered # NoRender /\ rendered.kind = "forceRefresh") =>
    /\ rendered.via = "network"
    /\ ~rendered.joined
    /\ ~rendered.conditional

\* C6 (as stated): optimisticRemove(path, name) on a cached path leaves an
\* entry for path whose listing excludes name and whose validator is empty,
\* so that a read of path started next carries no If-None-Match.
C6_RemovedAndUnconfirmed ==
  [][(/\ Called("optimisticRemove")
      /\ getData(folderCache, cacheOp'.path, now) # Null)
     => LET entry == getEntry(folderCache', cacheOp'.path, now)
        IN /\ entry # Null
           /\ cacheOp'.item \notin Range(entry.data)
           /\ entry.etag = EmptyEtag
           /\ conditionalHeader(getEtag(folderCache', cacheOp'.path, now))
                = NullEtag]_vars

\* C7 (as stated): when the server rejects a delete, the forced refresh that
\* follows reads the folder the items were removed from, wherever the user
\* has navigated meanwhile.
C7_RejectedDeleteRefreshesFolder ==
  (lastDelete # NoDelete /\ ~lastDelete.ok) =>
    lastDelete.refreshed = lastDelete.uri

\* C8 (as stated): after invalidatePrefix(p) no entry remains whose path
\* starts with p, and every entry whose path does not start with p is still
\* there with the same listing, validator and timestamp and the same place
\* in the eviction order.
C8_OthersUntouched ==
  [][Called("invalidatePrefix") =>
       LET p == cacheOp'.path
       IN /\ \A k \in KeysOf(folderCache') : ~Under(k, p)
          /\ Outside(folderCache', p) = Outside(folderCache, p)
          /\ folderCache'.accessOrder =
               SelectSeq(folderCache.accessOrder, LAMBDA k : ~Under(k, p))]_vars

\* every write of the map made by invalidatePrefix(p) fits the storage: there
\* is nothing to write, or the map without its first key under p fits
WritesFit(c, p, quota) ==
  \/ \A k \in KeysOf(c) : ~Under(k, p)
  \/ Len(c.cache) - 1 <= quota

\* C8 (amended): after invalidatePrefix(p) no entry remains whose path starts
\* with p; the entries that remain are entries that were there, unchanged and
\* in the same relative eviction order; and when the writes to storage
\* succeed, every entry whose path does not start with p remains.
C8_OthersUntouchedWhenSaved ==
  [][Called("invalidatePrefix") =>
       LET p == cacheOp'.path
           kept == KeysOf(folderCache')
       IN /\ \A k \in kept : ~Under(k, p)
          /\ folderCache'.cache =
               SelectSeq(folderCache.cache, LAMBDA e : e.path \in kept)
          /\ folderCache'.accessOrder =
               SelectSeq(folderCache.accessOrder, LAMBDA k : k \in kept)
          /\ WritesFit(folderCache, p, quotaLeft) =>
               Outside(folderCache', p) = Outside(folderCache, p)]_vars

\* invalidatePrefix("/o/d") removed an entry and left "/o/c" cached
C8_Witness ==
  /\ cacheOp.name = "invalidatePrefix"
  /\ cacheOp.path = Sub
  /\ cacheOp.dropped = 1
  /\ KeysOf(folderCache) = {Other}

\* the prefetch reads in flight
PrefetchesInFlight ==
  {i \in DOMAIN fetches : fetches[i] # Free /\ fetches[i].kind = "prefetch"}

\* C9: at every instant the number of prefetch reads in flight is at most
\* MAX_CONCURRENT_PREFETCH, whatever is queued and in whatever order the
\* reads settle; activePrefetches counts exactly the reads in flight.
C9_AtMostCapInFlight ==
  /\ Cardinality(PrefetchesInFlight) <= MAX_CONCURRENT_PREFETCH
  /\ activePrefetches = Cardinality(PrefetchesInFlight)

\* all the workers are busy while folders wait in the queue
C9_Witness ==
  /\ Cardinality(PrefetchesInFlight) = MAX_CONCURRENT_PREFETCH
  /\ Len(prefetchQueue) > 0

\* the step is a refresh() (not a forceRefresh()) started by the user that
\* finds a live listing of the path it navigates to
RefreshHits ==
  /\ calls'.nav = calls.nav + 1
  /\ Len(waiters') > 0
  /\ waiters'[Len(waiters')].kind # "forceRefresh"
  /\ getData(folderCache, currentPath', now) # Null

\* a listing as the explorer shows it: folders first, each group by name
Shown(listing) ==
  sortNames(SelectSeq(listing, IsFolder))
    \o sortNames(SelectSeq(listing, LAMBDA n : ~IsFolder(n)))

\* C10: a navigation to a path with a live cached listing renders that
\* listing in the same step with the loading flag false, waits for nothing,
\* and makes one background read of the path: one more caller, a background
\* one, at most one new request, and one read of the path in flight.
C10_CachedShownAtOnce ==
  [][RefreshHits =>
       /\ items' = Shown(getData(folderCache, currentPath', now).data)
       /\ loading' = FALSE
       /\ rendered'.via = "cache"
       /\ rendered'.navigationId = currentNavigationId'
       /\ Len(waiters') = Len(waiters) + 1
       /\ SubSeq(waiters', 1, Len(waiters)) = waiters
       /\ waiters'[Len(waiters')].kind = "revalidate"
       /\ Cardinality(ReadsOf(fetches', currentPath')) = 1
       /\ Cardinality({i \in DOMAIN fetches : fetches'[i] # fetches[i]}
                        \cap ReadsOf(fetches', currentPath')) <= 1]_vars

\* the cached listing of the current path is on screen, nothing is loading
\* and a background read carrying the entry's validator is in flight
C10_Witness ==
  /\ rendered # NoRender
  /\ rendered.via = "cache"
  /\ ~loading
  /\ items # <<>>
  /\ \E i \in 1..Len(waiters) :
       /\ waiters[i].kind = "revalidate"
       /\ fetches[waiters[i].fetch].url = currentPath
       /\ fetches[waiters[i].fetch].ifNoneMatch # NullEtag

\* C11 (as stated): when a 200 answer to a read reaches the client, the
\* store afterwards holds the returned listing with the response's validator
\* for the url, and the callers get that listing with fromCache = false.
C11_AnswerStored ==
  [][\A id \in DOMAIN fetches :
       (/\ fetches[id] # Free
        /\ fetches[id].kind = "read"
        /\ fetches[id].status = "200"
        /\ fetches'[id] # fetches[id])
       => /\ settled'.url = fetches[id].url
          /\ settled'.ok
          /\ ~settled'.fromCache
          /\ settled'.data = fetches[id].data
          /\ MapGet(folderCache', fetches[id].url) # Null
          /\ MapGet(folderCache', fetches[id].url).data = fetches[id].data
          /\ MapGet(folderCache', fetches[id].url).etag = fetches[id].etag]_vars

\* the navigations waiting for the read of slot id that are still current
CurrentNavigationsOn(id) ==
  {i \in 1..Len(waiters) :
     /\ waiters[i].fetch = id
     /\ waiters[i].kind \in {"refresh", "forceRefresh"}
     /\ waiters[i].navigationId = currentNavigationId}

\* the step hands the failure of the read of slot id to its callers
ReadFails(id) ==
  /\ fetches[id] # Free
  /\ fetches[id].kind = "read"
  /\ fetches[id].status = "error"
  /\ fetches'[id] # fetches[id]

C13_AtMostMaxEntries ==
  Len(folderCache.cache) <= maxEntries

\* a set of a new path found the cache full, and the cache is full again
C13_Witness ==
  /\ cacheOp.name = "set"
  /\ cacheOp.dropped = 1
  /\ MapHas(folderCache, cacheOp.path)
  /\ Len(folderCache.cache) = maxEntries

\* the step is a set of a path the cache does not hold, made on a full cache
SetsNewOnFull ==
  /\ Called("set")
  /\ ~MapHas(folderCache, cacheOp'.path)
  /\ Len(folderCache.cache) >= maxEntries

\* the access order after a call on path p lists the keys that remain, the
\* others in the order they had, and p last when the call touched it
TouchOrderKept ==
  LET p == cacheOp'.path
      kept == KeysOf(folderCache')
  IN /\ Range(folderCache'.accessOrder) = kept
     /\ SelectSeq(folderCache'.accessOrder, LAMBDA k : k # p) =
          SelectSeq(folderCache.accessOrder, LAMBDA k : k \in kept /\ k # p)
     /\ (cacheOp'.name \in {"set", "get", "optimisticRemove"} /\ p \in kept)
          => folderCache'.accessOrder[Len(folderCache'.accessOrder)] = p

\* C14 (as stated): a set of a new path on a full cache evicts exactly one
\* entry, the least recently touched one, and keeps the path being set.
C14_EvictsOneOldest ==
  [][SetsNewOnFull =>
       KeysOf(folderCache') =
         (KeysOf(folderCache) \ {Head(folderCache.accessOrder)})
           \cup {cacheOp'.path}]_vars

\* C14 (amended): every call keeps the access order in the order of the
\* last touches (a get that hits, a set and an optimistic update move their
\* path to the end, nothing else reorders); a set of a new path on a full
\* cache evicts the first path of that order and keeps the path being set;
\* it evicts nothing else when the write of the map to storage succeeds.
C14_EvictsOldestFirst ==
  [][/\ cacheOp'.name # "none" => TouchOrderKept
     /\ SetsNewOnFull =>
          /\ Head(folderCache.accessOrder) \notin KeysOf(folderCache')
          /\ cacheOp'.path \in KeysOf(folderCache')
          /\ maxEntries <= quotaLeft =>
               KeysOf(folderCache') =
                 (KeysOf(folderCache) \ {Head(folderCache.accessOrder)})
                   \cup {cacheOp'.path}]_vars

\* a set of a new path on a full cache evicted one entry, the write fitted
\* the storage, and the path set is the most recently touched
C14_Witness ==
  /\ cacheOp.name = "set"
  /\ cacheOp.dropped = 1
  /\ Len(folderCache.cache) = maxEntries
  /\ maxEntries <= quotaLeft
  /\ folderCache.accessOrder[Len(folderCache.accessOrder)] = cacheOp.path

\* the reads that the step sends for a url
ReadsSentFor(url) ==
  {id \in DOMAIN fetches :
     /\ fetches[id] = Free
     /\ fetches'[id] # Free
     /\ fetches'[id].kind = "read"
     /\ fetches'[id].url = url}

\* C15: an entry older than maxAgeMs is absent for get, getData and has,
\* getEtag returns no validator for it, and a read sent for its path while
\* it is that old carries no If-None-Match.
C15_ExpiredIsAbsent ==
  [][\A path \in AllPaths :
       LET entry == MapGet(folderCache, path)
       IN (entry # Null /\ now - entry.timestamp > maxAgeMs)
          => /\ getEntry(folderCache, path, now) = Null
             /\ getData(folderCache, path, now) = Null
             /\ ~has(folderCache, path, now)
             /\ getEtag(folderCache, path, now) = NullEtag
             /\ \A id \in ReadsSentFor(path) :
                  fetches'[id].ifNoneMatch = NullEtag]_vars

\* refresh() found the entry of the folder too old and dropped it, and the
\* read it sent for the folder is in flight without a validator
C15_Witness ==
  /\ cacheOp.name = "get"
  /\ cacheOp.dropped = 1
  /\ cacheOp.path = currentPath
  /\ ~MapHas(folderCache, currentPath)
  /\ loading
  /\ \E id \in DOMAIN fetches :
       /\ fetches[id] # Free
       /\ fetches[id].kind = "read"
       /\ fetches[id].url = currentPath
       /\ fetches[id].status = "sent"
       /\ fetches[id].ifNoneMatch = NullEtag

\* the place of W[i] when W is ordered by priority, the earlier first
\* among equal priorities
StartRank(W, i) ==
  1 + Cardinality({j \in 1..Len(W) :
        \/ W[j].priority < W[i].priority
        \/ W[j].priority = W[i].priority /\ j < i})

StartOrder(W) ==
  [r \in 1..Len(W) |-> W[CHOOSE i \in 1..Len(W) : StartRank(W, i) = r]]

\* the tasks waiting once queuePrefetch(paths, priority) has pushed, in the
\* order they were enqueued
WaitingWith(paths, priority) ==
  prefetchQueue \o
    [i \in 1..Len(SelectSeq(paths, LAMBDA p :
         /\ ~MapHas(folderCache, p)
         /\ \A k \in 1..Len(prefetchQueue) : prefetchQueue[k].path # p)) |->
       [path |-> SelectSeq(paths, LAMBDA p :
                   /\ ~MapHas(folderCache, p)
                   /\ \A k \in 1..Len(prefetchQueue) : prefetchQueue[k].path # p)[i],
        priority |-> priority]]

\* the step took the first tasks of W in start order, sent a read for each
\* one not cached, and left the others waiting in that order
TakenInOrder(W) ==
  LET E == StartOrder(W)
  IN \E k \in 0..Len(E) :
       /\ prefetchQueue' = SubSeq(E, k + 1, Len(E))
       /\ \A i \in 1..k :
            \/ MapHas(folderCache', E[i].path)
            \/ \E id \in DOMAIN fetches' :
                 /\ fetches'[id] # Free
                 /\ fetches'[id].kind = "prefetch"
                 /\ fetches'[id].url = E[i].path
                 /\ fetches'[id].status = "sent"
       /\ k < Len(E) => activePrefetches' = MAX_CONCURRENT_PREFETCH

\* C16: the prefetch reads are started in the order of the priority numbers,
\* the smallest first, and in the order of enqueueing among equal
\* priorities: every call of queuePrefetch and every completed prefetch
\* takes a prefix of the waiting tasks in that order and leaves the rest.
C16_StartsByPriority ==
  [][/\ \A paths \in PrefetchBatches, priority \in Priorities :
          QueuePrefetch(paths, priority)
            => TakenInOrder(WaitingWith(paths, priority))
     /\ (\E id \in PrefetchIds, fails \in BOOLEAN : PrefetchCompletes(id, fails))
          => TakenInOrder(prefetchQueue)]_vars

\* all the reads allowed are in flight, and a task of priority 0 waits ahead
\* of a task of priority 1 enqueued by the call before
C16_Witness ==
  /\ activePrefetches = MAX_CONCURRENT_PREFETCH
  /\ calls.queue = 2
  /\ Len(prefetchQueue) >= 2
  /\ prefetchQueue[1].priority = 0
  /\ prefetchQueue[Len(prefetchQueue)].priority = 1
  /\ prefetchQueue[Len(prefetchQueue)].path = PrefetchList[Len(PrefetchList)]

\* how many tasks of the queue q are for path p, and how many prefetch reads
\* of the network net
QueuedFor(q, p) == Cardinality({i \in 1..Len(q) : q[i].path = p})

FetchingFor(net, p) ==
  Cardinality({id \in DOMAIN net :
     net[id] # Free /\ net[id].kind = "prefetch" /\ net[id].url = p})

\* C17: no path has more than one prefetch task, queued and in flight taken
\* together, and no task is enqueued and no read started for a path that
\* has a fresh cache entry.
C17_OneTaskPerPath ==
  [][\A p \in PrefetchPaths :
       /\ QueuedFor(prefetchQueue', p) + FetchingFor(fetches', p) <= 1
       /\ (has(folderCache, p, now) /\ has(folderCache', p, now))
            => /\ QueuedFor(prefetchQueue', p) <= QueuedFor(prefetchQueue, p)
               /\ FetchingFor(fetches', p) <= FetchingFor(fetches, p)]_vars

\* the controller registered under key is one created for that key, not
\* aborted, of a request still running, and no request started later under
\* the key is still running and un-aborted
RegisteredIsLatest(reg, ctl) ==
  \A key \in Keys :
    LET controller == reg[key]
    IN controller # 0 =>
         /\ controller \in 1..Len(ctl)
         /\ ctl[controller].key = key
         /\ ~ctl[controller].aborted
         /\ ctl[controller].running
         /\ \A later \in (controller + 1)..Len(ctl) : ctl[later].key # key

\* C18: a key has at most one registered controller, which is the un-aborted
\* controller of the latest request started under the key and still running;
\* a new cancellableRequest under a key that has one aborts the old
\* controller before it calls fetchApi; the end of a superseded request
\* leaves the registry as it is.
C18_RegistryHoldsLatest ==
  [][/\ RegisteredIsLatest(abortControllers', controllers')
     /\ \A key \in Keys :
          (CancellableRequest(key) /\ abortControllers[key] # 0)
            => /\ controllers'[abortControllers[key]].aborted
               /\ abortControllers'[key] = Len(controllers')
               /\ \E i \in 1..Len(cancelLog') : \E j \in (i + 1)..Len(cancelLog') :
                    /\ cancelLog'[i] = <<"abort", abortControllers[key]>>
                    /\ cancelLog'[j] = <<"fetch", abortControllers'[key]>>
     /\ \A controller \in 1..Len(controllers) :
          (/\ CancellableSettles(controller)
           /\ abortControllers[controllers[controller].key] # controller)
            => abortControllers' = abortControllers]_vars

\* a request superseded under its key has ended, and the request that
\* superseded it is still registered and running
C18_Witness ==
  \E old \in 1..Len(controllers) :
    /\ controllers[old].aborted
    /\ ~controllers[old].running
    /\ abortControllers[controllers[old].key] > old
    /\ controllers[abortControllers[controllers[old].key]].running

\* forceRefresh() has run on the folder shown: the view is loading and a
\* caller of the current navigation awaits the read of the folder
ForceRefreshed(ws, net, navId, path, isLoading) ==
  /\ isLoading
  /\ \E i \in 1..Len(ws) :
       /\ ws[i].kind \in {"forceRefresh", "onRefresh"}
       /\ ws[i].navigationId = navId
       /\ net[ws[i].fetch] # Free
       /\ net[ws[i].fetch].url = path

\* the step handles the answer to a delete of the item list that the server
\* carried out
ItemDeleteDone ==
  \E id \in DOMAIN fetches :
    /\ fetches[id] # Free
    /\ fetches[id].kind = "delete"
    /\ fetches[id].status = "200"
    /\ lastDelete' # NoDelete

\* the step ends a folder tree deletion that the server carried out: the
\* read of reloadNode(parentNode) settles
TreeDeleteDone ==
  \E i \in 1..Len(settled'.callers) : settled'.callers[i].kind = "reloadNode"

\* C19: when a folder deletion that the server carried out has been handled,
\* from the item list or from the folder tree, no cache entry is left under
\* the path of a deleted folder, and forceRefresh() has run on the folder
\* shown.
C19_DeletedFolderForgotten ==
  [][/\ ItemDeleteDone =>
          /\ \A i \in 1..Len(lastDelete'.names) :
               IsFolder(lastDelete'.names[i]) =>
                 \A k \in KeysOf(folderCache') :
                   ~Under(k, Fullname(lastDelete'.uri, lastDelete'.names[i]))
          /\ ForceRefreshed(waiters', fetches', currentNavigationId',
                            currentPath', loading')
     /\ TreeDeleteDone =>
          /\ \A node \in TreeNodes :
               ~Exists(srv', node) =>
                 \A k \in KeysOf(folderCache') : ~Under(k, node)
          /\ ForceRefreshed(waiters', fetches', currentNavigationId',
                            currentPath', loading')]_vars

\* the step handles the answer of slot id to a move that the server
\* carried out
MoveDone(id) ==
  /\ fetches[id] # Free
  /\ fetches[id].kind = "move"
  /\ fetches[id].status = "200"
  /\ fetches'[id] # fetches[id]

\* C20: when a move that the server carried out has been handled, the cache
\* holds no entry for the parent folder of a moved path nor for the target
\* folder, no entry under the old path of a moved folder, and forceRefresh()
\* has run on the folder shown.
C20_MovedFolderForgotten ==
  [][\A id \in DOMAIN fetches :
       MoveDone(id) =>
         /\ \A i \in 1..Len(fetches[id].names) :
              LET file == fetches[id].names[i]
              IN /\ ~MapHas(folderCache', ParentOf(file))
                 /\ IsFolder(file[Len(file)]) =>
                      \A k \in KeysOf(folderCache') : ~Under(k, file)
         /\ ~MapHas(folderCache', fetches[id].url)
         /\ ForceRefreshed(waiters', fetches', currentNavigationId',
                           currentPath', loading')]_vars

\* the access order that set or invalidate of path p leaves in memory
\* before the map is written to storage
OrderBeforeSave(name, p) ==
  LET others == SelectSeq(folderCache.accessOrder, LAMBDA k : k # p)
  IN IF name = "invalidate" THEN others
     ELSE IF ~MapHas(folderCache, p) /\ Len(folderCache.cache) >= maxEntries
          THEN Append(Tail(folderCache.accessOrder), p)
          ELSE Append(others, p)

ReadHandled(id) ==
  /\ fetches[id] # Free
  /\ fetches[id].kind = "read"
  /\ fetches[id].status \in {"200", "304", "error"}
  /\ fetches'[id] # fetches[id]

\* C22: the step in which the read registered for a url is answered, with a
\* listing, a 304 or a failure, ends with the url unregistered and no read
\* of it left; a registered url always has a read on the network; and a refresh
\* called while the url of its folder is unregistered sends a new read.
C22_RegistrationRemoved ==
  [][/\ \A id \in DOMAIN fetches :
          ReadHandled(id) =>
            /\ ReadsOf(fetches', fetches[id].url) = {}
            /\ inFlightRequests'[fetches[id].url] = 0
     /\ \A url \in NavPaths :
          inFlightRequests'[url] # 0 =>
            /\ fetches'[inFlightRequests'[url]] # Free
            /\ fetches'[inFlightRequests'[url]].status \in
                 {"sent", "200", "304", "error"}
     /\ \A path \in NavPaths :
          (Navigate(path) /\ inFlightRequests[path] = 0) =>
            /\ inFlightRequests'[path] # 0
            /\ fetches[inFlightRequests'[path]] = Free
            /\ fetches'[inFlightRequests'[path]].status = "sent"
            /\ ~waiters'[Len(waiters')].joined]_vars

\* the step handles the failure of the prefetch read of slot id
PrefetchFails(id) ==
  /\ fetches[id] # Free
  /\ fetches[id].kind = "prefetch"
  /\ \/ fetches[id].status = "error" /\ PrefetchArrives(id)
     \/ fetches[id].status = "sent" /\ PrefetchCompletes(id, TRUE)

\* the step handles the failure of the read of slot id, which only
\* background revalidations await
RevalidationFails(id) ==
  /\ ReadHandled(id)
  /\ fetches[id].status = "error"
  /\ \A i \in 1..Len(waiters) :
       waiters[i].fetch = id => waiters[i].kind = "revalidate"

C24_MoreVisitsFirst ==
  LET f == getFrequentPaths(history, 5)
  IN \A i, j \in 1..Len(f) : visits[f[i]] > visits[f[j]] => i < j

CountIn(h, path) ==
  IF \E i \in 1..Len(h) : h[i].path = path
  THEN h[CHOOSE i \in 1..Len(h) : h[i].path = path].count ELSE 0

\* C24 amended: the frequency-ranked candidates are the paths of the history
\* ordered by the count of their record, highest first, and no path left out
\* has a higher count than a candidate; a record's count is at most the
\* number of times its path was recorded
C24_HigherCountFirst ==
  LET f == getFrequentPaths(history, 5)
  IN /\ \A i, j \in 1..Len(f) :
          CountIn(history, f[i]) > CountIn(history, f[j]) => i < j
     /\ Range(f) \subseteq Range(pathsOf(history))
     /\ Len(f) = IF Len(history) < 5 THEN Len(history) ELSE 5
     /\ \A p \in Range(pathsOf(history)) \ Range(f), i \in 1..Len(f) :
          CountIn(history, p) <= CountIn(history, f[i])
     /\ \A i \in 1..Len(history) :
          history[i].count <= visits[history[i].path]

\* C24 witness: after recorded visits the history holds records of different
\* counts, one of them of a path whose earlier record was dropped
C24_Witness ==
  /\ calls.record >= 1
  /\ \E i, j \in 1..Len(history) : history[i].count < history[j].count
  /\ \E i \in 1..Len(history) : history[i].count < visits[history[i].path]
  /\ Len(getFrequentPaths(history, 5)) = 5

\* the paths handed to queuePrefetch by the calls hs
RECURSIVE HandedPaths(_)
HandedPaths(hs) ==
  IF hs = <<>> THEN <<>> ELSE hs[1].paths \o HandedPaths(Tail(hs))

HandedAt(hs, priority) ==
  HandedPaths(SelectSeq(hs, LAMBDA c : c.priority = priority))

NoRepeats(seq) == \A i, j \in 1..Len(seq) : seq[i] = seq[j] => i = j

\* C25: onFolderOpen hands to queuePrefetch at most 10 of the children at
\* priority 0, at most 5 of the siblings at priority 1, at most 5 of the most
\* frequently visited paths at priority 2 and at most 3 of the most recently
\* visited paths at priority 3; no call of the prefetcher hands over a path
\* of prefetchedPaths, every path handed over is in prefetchedPaths
\* afterwards, and only clearPrefetchedCache removes paths from it, so a path
\* is handed over at most once between two clears
C25_HandsOverOnce ==
  [][/\ \A siblings \in {<<>>, SiblingPaths},
           children \in {ChildPaths, SubSeq(ChildPaths, 1, 2)} :
          FolderOpen(siblings, children) =>
            /\ \A i \in 1..Len(handed') : handed'[i].priority \in 0..3
            /\ \A i, j \in 1..Len(handed') :
                 i < j => handed'[i].priority < handed'[j].priority
            /\ Len(HandedAt(handed', 0)) <= 10
            /\ Range(HandedAt(handed', 0)) \subseteq Range(children)
            /\ Len(HandedAt(handed', 1)) <= 5
            /\ Range(HandedAt(handed', 1)) \subseteq Range(siblings)
            /\ Len(HandedAt(handed', 2)) <= 5
            /\ Range(HandedAt(handed', 2))
                 \subseteq Range(getFrequentPaths(history, 5))
            /\ Len(HandedAt(handed', 3)) <= 3
            /\ Range(HandedAt(handed', 3))
                 \subseteq Range(getRecentPaths(history, 3))
     /\ calls'.open = calls.open + 1 =>
          /\ Range(HandedPaths(handed')) \cap prefetchedPaths = {}
          /\ Range(HandedPaths(handed')) \subseteq prefetchedPaths'
          /\ NoRepeats(HandedPaths(handed'))
     /\ ~ClearPrefetchedCache => prefetchedPaths \subseteq prefetchedPaths'
    ]_vars

\* C25 witness: a folder with eleven children and six siblings was opened
\* over a full history: ten children, five siblings and paths of both
\* rankings were handed over, the most visited path (a child) only once
C25_Witness ==
  /\ calls.open >= 1
  /\ Len(handed) = 4
  /\ Len(handed[1].paths) = 10
  /\ Len(handed[2].paths) = 5
  /\ handed[3].priority = 2
  /\ handed[4].priority = 3
  /\ ChildPaths[1] \in Range(getFrequentPaths(history, 5))
  /\ ChildPaths[11] \in prefetchedPaths

\* C26: whenever the folder cache is invalidated broadly, by invalidatePrefix
\* or by clear, the prefetcher's prefetchedPaths is empty afterwards
C26_InvalidationClearsNominated ==
  [][(Called("invalidatePrefix") \/ Called("clear")) => prefetchedPaths' = {}
    ]_vars

RecordOf(h, path) == h[CHOOSE i \in 1..Len(h) : h[i].path = path]

\* C27: after each recordAccess the history holds at most one record per
\* path and at most maxHistorySize records, the count of the visited path is
\* one higher than before (one for a path without a record), the other
\* records kept are unchanged, and no record dropped has a later last-visit
\* time than a record kept
C27_HistoryBounded ==
  [][\A path \in HistoryPaths :
       RecordAccess(path) =>
         /\ NoRepeats(pathsOf(history'))
         /\ Len(history') <= maxHistorySize
         /\ CountIn(history', path) = CountIn(history, path) + 1
         /\ \A p \in Range(pathsOf(history')) \ {path} :
              /\ p \in Range(pathsOf(history))
              /\ RecordOf(history', p) = RecordOf(history, p)
         /\ \A d \in Range(pathsOf(history)) \ Range(pathsOf(history')),
              k \in Range(pathsOf(history')) :
              RecordOf(history, d).timestamp <= RecordOf(history', k).timestamp
    ]_vars

\* C28: a listing a reader obtained from the store has the value it had
\* when the reader obtained it
C28_ObtainedListingUnchanged ==
  heap.held # NoHeld => Deep(heap, heap.held.arr) = heap.held.value

\* the listing an optimistic update makes of the cached listing
Edited(name, listing, item) ==
  CASE name = "optimisticAdd" -> Append(listing, item)
    [] name = "optimisticRemove" -> Without(listing, {item})
    [] OTHER -> [i \in 1..Len(listing) |->
                   IF listing[i] = item THEN RenamedTo ELSE listing[i]]

\* C29: optimisticAdd, optimisticRemove and optimisticRename leave the whole
\* store unchanged when the folder has no cached listing; when it has one,
\* the folder's entry holds the edited listing afterwards and the entry of
\* every other path is the one it was
C29_OptimisticEditsOnlyCached ==
  [][(Called("optimisticAdd") \/ Called("optimisticRemove")
        \/ Called("optimisticRename"))
     => LET p == cacheOp'.path
            cached == getData(folderCache, p, now)
        IN IF cached = Null
           THEN folderCache' = folderCache
           ELSE /\ MapGet(folderCache', p) # Null
                /\ MapGet(folderCache', p).data
                     = Edited(cacheOp'.name, cached.data, cacheOp'.item)
                /\ \A k \in CachePaths \ {p} :
                     MapGet(folderCache', k) = MapGet(folderCache, k)]_vars

\* the callers that refresh() and forceRefresh() leave waiting: a call of
\* refresh leaves one of kind refresh or, the listing being cached, one of
\* kind revalidate; a call of forceRefresh leaves one of kind forceRefresh
\* or onRefresh
NavigationKinds == {"refresh", "revalidate", "forceRefresh", "onRefresh"}
NavigationWaiters(ws) == SelectSeq(ws, LAMBDA w : w.kind \in NavigationKinds)

\* the calls of refresh and forceRefresh made by the step
NavigationCalls ==
  Len(NavigationWaiters(waiters'))
    - (Len(NavigationWaiters(waiters)) - Len(NavigationWaiters(settled'.callers)))

\* C30: the navigation id never decreases, a step raises it by the number
\* of refresh and forceRefresh calls it makes, a navigation to the path
\* already shown included, and no two navigations waiting for their read
\* carry the same id
C30_NavigationIdCounts ==
  [][/\ currentNavigationId' >= currentNavigationId
     /\ currentNavigationId' = currentNavigationId + NavigationCalls
     /\ \A path \in NavPaths :
          Navigate(path) => currentNavigationId' = currentNavigationId + 1
     /\ LET ws == SelectSeq(waiters', LAMBDA w :
                    w.kind \in {"refresh", "forceRefresh", "onRefresh"})
        IN \A i, j \in 1..Len(ws) :
             /\ ws[i].navigationId = ws[j].navigationId => i = j
             /\ ws[i].navigationId \in 1..currentNavigationId'
    ]_vars

\* C30 witness: the folder navigated to was refreshed by force while its
\* read was in flight: the two navigations of the same path carry the ids 1
\* and 2 and wait for the same read
C30_Witness ==
  /\ currentNavigationId = 2
  /\ calls.nav = 2
  /\ \E i, j \in 1..Len(waiters) :
       /\ waiters[i].kind = "refresh"
       /\ waiters[j].kind = "forceRefresh"
       /\ waiters[i].navigationId < waiters[j].navigationId
       /\ waiters[i].fetch = waiters[j].fetch

\* the reads of earlier navigations that are still in flight
NavigationReadsInFlight ==
  {waiters[i].fetch : i \in {j \in 1..Len(waiters) :
      /\ waiters[j].kind \in {"refresh", "forceRefresh", "onRefresh"}
      /\ fetches[waiters[j].fetch] # Free
      /\ fetches[waiters[j].fetch].status = "sent"}}

\* C31: when a navigation to a folder that is not cached starts while the
\* read of an earlier navigation is in flight, the step calls abort() on a
\* controller, the one registered under 'navigation'
C31_EarlierReadAborted ==
  [][\A path \in NavPaths :
       (/\ Navigate(path)
        /\ getData(folderCache, path, now) = Null
        /\ NavigationReadsInFlight # {})
       => /\ Len(cancelLog') = Len(cancelLog) + 1
          /\ cancelLog'[Len(cancelLog')][1] = "abort"
          /\ controllers[cancelLog'[Len(cancelLog')][2]].key = "navigation"
    ]_vars

\* the request to create a file that the step sees succeed
Created(id) ==
  /\ fetches[id] # Free
  /\ fetches[id].kind \in {"createNewPrompt", "createItems"}
  /\ fetches[id].status = "200"
  /\ CreateArrives(id)

\* C32: the step that sees a creation succeed renders nothing from the
\* cache, and the listing rendered for the refresh the creation started
\* comes from the network and holds the file created
C32_RenderedAfterMutation ==
  [][/\ \A id \in FetchIds :
          Created(id) =>
            \/ rendered' = NoRender
            \/ rendered' = rendered
            \/ /\ rendered'.via = "network"
               /\ \A i \in 1..Len(fetches[id].names) :
                    fetches[id].names[i] \in Range(items')
     /\ (/\ rendered' # rendered
         /\ rendered' # NoRender
         /\ rendered'.kind \in {"createNewPrompt", "createItems"})
        => /\ rendered'.via = "network"
           /\ \/ "p" \in Range(items')
              \/ "u" \in Range(items')
    ]_vars

\* the most recent navigation is waiting for its read
LatestNavigationWaits ==
  \E i \in 1..Len(waiters) :
    /\ waiters[i].kind \in {"refresh", "forceRefresh", "onRefresh",
                            "createNewPrompt", "createItems"}
    /\ waiters[i].navigationId = currentNavigationId

\* C33: while the most recent navigation waits for its read, loading is true
C33_LoadingWhileWaiting == LatestNavigationWaits => loading

\* the scheduler has nothing to do
PrefetchIdle == prefetchQueue = <<>> /\ activePrefetches = 0

\* path waits in the queue
Enqueued(path) == \E i \in 1..Len(prefetchQueue) : prefetchQueue[i].path = path

\* C34: when every prefetch read eventually settles, every enqueued path
\* eventually leaves the queue, the queue eventually empties with no read in
\* flight, also when paths are enqueued while workers are active, and the
\* scheduler is never idle with paths still queued.
C34_QueueDrains ==
  /\ [](prefetchQueue # <<>> => activePrefetches = MAX_CONCURRENT_PREFETCH)
  /\ \A path \in PrefetchPaths : Enqueued(path) ~> ~Enqueued(path)
  /\ ~PrefetchIdle ~> PrefetchIdle
  /\ <>[]PrefetchIdle

\* two calls have enqueued paths, more reads have settled than one call
\* enqueues, and the scheduler is idle again
C34_Witness ==
  /\ calls.queue = 2
  /\ calls.settle > Len(PrefetchList)
  /\ PrefetchIdle

\* the network requests in flight that read path, foreground and prefetch
ReadingNow(path) ==
  {id \in DOMAIN fetches :
     /\ fetches[id] # Free
     /\ fetches[id].kind \in {"read", "prefetch"}
     /\ fetches[id].url = path}

\* C35: a prefetch read and a foreground read go through the same
\* deduplicated transport: while a read of a path is in flight, foreground or
\* prefetch, reading the path from the other side issues no second request.
C35_OneReadPerPath ==
  \A path \in AllPaths : Cardinality(ReadingNow(path)) <= 1

\* the deduplicated read in slot id is a read of path that the server has
\* answered with a listing and whose answer has not reached the client yet
AnsweredReadOf(id, path) ==
  /\ fetches[id] # Free
  /\ fetches[id].kind = "read"
  /\ fetches[id].url = path
  /\ fetches[id].status = "200"

\* the cached listing of path is an optimistic one that holds none of names
EditedWithout(c, path, names) ==
  /\ MapHas(c, path)
  /\ MapGet(c, path).etag = EmptyEtag
  /\ Range(MapGet(c, path).data) \cap Range(names) = {}

\* C36: a response to a read sent before an optimistic edit never overwrites
\* the edit: when handleDelete has removed the selected names from the cached
\* listing of the folder shown while the answer to an earlier read of the
\* folder is on its way, the arrival of that answer leaves the names out of
\* the cached listing and the validator of the entry empty.
C36_EditSurvivesEarlierRead ==
  [][\A selected \in Selections(<<"d", "f", "g">>), id \in FetchIds :
       (/\ DeleteItems(selected)
        /\ AnsweredReadOf(id, currentPath)
        /\ EditedWithout(folderCache', currentPath, selected))
         => EditedWithout(readSettled(Cur, id).fc', currentPath, selected)]_vars

\* C37: whether or not persisting fails during set(path, listing, validator),
\* the entry just written is held in memory afterwards: a following
\* getData(path) returns the listing passed to set, for every cache size.
C37_SetIsKept ==
  [][\A path \in CachePaths, v \in CacheValues :
       CacheSet(path, v)
         => getData(folderCache', path, now') = [data |-> v.data]]_vars

\* C38: every path of prefetchedPaths has been handed to the prefetch
\* scheduler: a call of the prefetcher adds to prefetchedPaths only paths it
\* passes to queuePrefetch.
C38_NominatedWereHanded ==
  [][calls'.open = calls.open + 1 =>
       (prefetchedPaths' \ prefetchedPaths)
         \subseteq Range(HandedPaths(handed'))]_vars

\* C39: after any sequence of cache operations, loading from storage
\* included, the access order is a duplicate-free list of exactly the keys
\* held in the cache map.
C39_OrderListsTheKeys ==
  /\ NoRepeats(folderCache.accessOrder)
  /\ Range(folderCache.accessOrder) = KeysOf(folderCache)

\* two entries were loaded from storage, one of them has expired and was
\* dropped by a get, and the other is still held
C39_Witness ==
  /\ cacheOp.name = "get"
  /\ cacheOp.dropped = 1
  /\ Len(folderCache.cache) = 1
  /\ folderCache.cache[1].timestamp = 0
  /\ now - folderCache.cache[1].timestamp > maxAgeMs

====
